---- MODULE Spec2Model ----
(***************************************************************************)
(* Scraping engine of didin-facil (src-tauri/src/scraper): the run of      *)
(* TikTokScraper::start() over the shared ScraperStatus, together with the *)
(* callers that start and stop it (commands.rs).                           *)
(*                                                                         *)
(* A product is the pair of fields the orchestrator and the claims read:   *)
(* tiktok_id (0 stands for the empty string) and title ("" or "T").        *)
(* progress (an f32 in the code) is kept as the exact fraction num/den.    *)
(* ScraperStatus.logs is represented by its newest entry, last_log: a      *)
(* push always leaves the pushed line last (scraper/mod.rs:74-79).         *)
(***************************************************************************)
EXTENDS Integers, Sequences, FiniteSets, TLC

(* ------------------------------ bounds --------------------------------- *)
\* largest source id a page exposes (ids are 0..NumIds, 0 = empty string)
NumIds == 2
\* largest number of products one parse of the page returns
MaxBatch == 2
\* largest config.max_products
MaxProducts == 2
\* largest config.max_retries
MaxRetries == 1
\* largest number of configured categories
MaxCategories == 2
\* largest document.body.scrollHeight the page reports
MaxHeight == 1

(* --------------------------- program constants -------------------------- *)
\* no_change_count >= 3 ends the pagination of a category
NoChangeLimit == 3
\* progress never exceeds 99 while the run is in progress
ProgressCap == 99
\* progress written when the run has ended
ProgressDone == 100
\* base of the exponential backoff, 2u64.pow(retries)
BackoffBase == 2

VARIABLES
    config,           \* ScraperConfig of the run (immutable after Init)
    pc,               \* position of the orchestrator task
    status,           \* the shared ScraperStatus (behind status_lock)
    status_lock,      \* holder of the status mutex: "free" or "start"
    last_log,         \* newest entry of ScraperStatus.logs
    browser,          \* BrowserManager.browser is Some
    all_products,     \* Vec<Product> accumulated by scrape_products
    parsed,           \* what the last parse-and-merge step was given (see ParseInfo)
    cat,              \* index of the category of the for loop
    retries,          \* retries of the navigation loop
    delay,            \* backoff delay of the last retry, in seconds
    content,          \* page content read by the safety check
    previous_height,  \* previous_height of the scroll loop
    no_change_count,  \* no_change_count of the scroll loop
    result,           \* Result of scrape_products: "none", "Ok" or an error
    stop_observed,    \* a stop check of the run has seen is_running = false
    parses_after_stop, \* parse steps begun while is_running was false
    stop_requested    \* stop_scraper has answered true during this run

vars == <<config, pc, status, status_lock, last_log, browser,
          all_products, parsed, cat, retries, delay, content,
          previous_height, no_change_count, result, stop_observed,
          parses_after_stop, stop_requested>>

\* ScraperStatus.logs in full, for the rolling log of add_log
VARIABLES
    logs,             \* ScraperStatus.logs: entries are the numbers of their push
    pushed            \* number of add_log calls made so far

log_vars == <<logs, pushed>>

\* a ProxyPool, its clock and the get_next calls in progress on it
VARIABLES
    proxy_urls,       \* the argument of ProxyPool::new
    pool_pc,          \* "new" before ProxyPool::new has run, "ready" after
    proxies,          \* ProxyPool.proxies
    stats,            \* ProxyPool.stats: server |-> ProxyStats
    current_index,    \* ProxyPool.current_index
    now,              \* Utc::now(), in minutes
    call,             \* per caller: the get_next call in progress
    calls,            \* get_next calls begun so far
    returned,         \* get_next calls that returned an endpoint so far
    prev,             \* the endpoint the last get_next call returned, if any
    last_op           \* the last operation completed on the pool

pool_vars == <<proxy_urls, pool_pc, proxies, stats, current_index, now, call,
               calls, returned, prev, last_op>>

\* a BrowserManager on its own, and the start() calls in progress on it
VARIABLES
    bm_browser,       \* BrowserManager.browser: <<>> for None, <<b>> for Some(b)
    bm_live,          \* the browser processes that are running
    bm_launched,      \* browsers launched so far (the next one is numbered one more)
    bm_task,          \* per task: the browser its start() has launched, not yet stored
    bm_last           \* the last call completed on the manager

bm_vars == <<bm_browser, bm_live, bm_launched, bm_task, bm_last>>

\* a BrowserPool and the managers it has created
VARIABLES
    bp_max,           \* BrowserPool.max_browsers
    bp_browsers,      \* BrowserPool.browsers: the managers, by number
    bp_live,          \* the managers whose browser is running
    bp_started,       \* the managers whose start() has returned Ok
    bp_made,          \* managers created so far (the next one is numbered one more)
    bp_last           \* the last call completed on the pool or on a manager

bp_vars == <<bp_max, bp_browsers, bp_live, bp_started, bp_made, bp_last>>

\* a TikTokParser call: its argument and what it returned
VARIABLES
    ps_in,            \* the argument of the call
    ps_out,           \* the value the call returned
    ps_fn             \* "none" before the call, the name of the function after

ps_vars == <<ps_in, ps_out, ps_fn>>

\* the scroll loop of one category on its own: the page and the loop's locals
VARIABLES
    sl_page,          \* the page: its height before the first scroll, and the
                      \* heights that the reads after each scroll return
    sl_previous,      \* previous_height
    sl_count,         \* no_change_count
    sl_steps,         \* scroll steps made so far
    sl_ended          \* the loop has been left at the end of the page

sl_vars == <<sl_page, sl_previous, sl_count, sl_steps, sl_ended>>

\* the stats lock of a ProxyPool (a tokio RwLock) and the calls that take it
VARIABLES
    lk_pc,            \* per task: its position in the call it makes
    lk_guards,        \* per task: the read guards of stats it holds
    lk_writer,        \* the task that holds the write guard of stats, if any
    lk_queue,         \* the tasks waiting for stats, oldest first
    lk_index          \* the task that holds the write guard of current_index

lk_vars == <<lk_pc, lk_guards, lk_writer, lk_queue, lk_index>>

\* the product cards of one category page over the iterations of its loop
VARIABLES
    cd_cards,         \* the cards on the page
    cd_source,        \* where parse_product_list finds products on this page
    cd_all,           \* all_products, each product with the card it came from
    cd_parses         \* iterations of the loop made so far

cd_vars == <<cd_cards, cd_source, cd_all, cd_parses>>

\* scrape_tiktok_shop invocations that overlap on the shared ScraperStatus
VARIABLES
    ov_pc,            \* per invocation: its position
    ov_running,       \* ScraperStatus.is_running
    ov_lock,          \* the invocation that holds the status guard, if any
    ov_stop,          \* stop_scraper has been called since the last reset
    ov_checks,        \* per invocation: stop checks that found the run running
    ov_cancelled      \* per invocation: a stop check has found the flag cleared

ov_vars == <<ov_pc, ov_running, ov_lock, ov_stop, ov_checks, ov_cancelled>>

\* the components that are checked on their own, in isolation
rest_vars == <<sl_vars, lk_vars, cd_vars, ov_vars>>

\* the state of the components the orchestrator run leaves alone
aux_vars == <<log_vars, pool_vars, bm_vars, bp_vars, ps_vars, rest_vars>>

all_vars == <<vars, aux_vars>>

(* ------------------------------ data ----------------------------------- *)
Ids == 0..NumIds
Titles == {"", "T"}
Product == [tiktok_id : Ids, title : Titles]

\* the listings a page exposes: one per source id, and a second, untitled
\* listing that carries source id 1
PageProducts == {p \in Product : p.title = "" => p.tiktok_id = 1}

RECURSIVE SeqsUpTo(_, _)
SeqsUpTo(S, n) ==
    IF n = 0 THEN {<<>>}
    ELSE LET shorter == SeqsUpTo(S, n - 1)
         IN  shorter \cup {Append(s, x) : s \in {t \in shorter : Len(t) = n - 1}, x \in S}

\* what one parse_product_list call can return
Batches == SeqsUpTo(PageProducts, MaxBatch)

Heights == 0..MaxHeight

Pct(n, d) == [num |-> n, den |-> d]

Configs ==
    [max_products : 0..MaxProducts,
     max_retries : 0..MaxRetries,
     categories : 0..MaxCategories,
     safety_switch_enabled : BOOLEAN]

\* the status the application manages at start-up, and one left by an earlier run
IdleStatus ==
    [is_running |-> FALSE, progress |-> Pct(0, 1), products_found |-> 0,
     errors |-> <<>>]
StaleStatus ==
    [is_running |-> FALSE, progress |-> Pct(ProgressDone, 1), products_found |-> 1,
     errors |-> <<>>]

\* a product with a source id and a title
WellFormed(p) == p.tiktok_id # 0 /\ p.title # ""

\* the ids of a batch are pairwise different
DistinctIds(batch) ==
    \A i, j \in 1..Len(batch) : batch[i].tiktok_id = batch[j].tiktok_id => i = j

\* record of one parse-and-merge step: the length of all_products before it,
\* the length of the batch, and whether the batch was one of well-formed
\* products with pairwise different ids
ParseInfo(all, batch) ==
    [before |-> Len(all), len |-> Len(batch),
     clean |-> DistinctIds(batch) /\ \A i \in 1..Len(batch) : WellFormed(batch[i])]
NoParse == [before |-> 0, len |-> 0, clean |-> FALSE]

\* "trending" is the single implicit category of an empty list
NumCategories == IF config.categories = 0 THEN 1 ELSE config.categories

\* the rolling log before any add_log call
LogsIdle == logs = <<>> /\ pushed = 0

\* no call in progress, none made
NoCall == [pc |-> "idle", available |-> <<>>]
NoOp == [op |-> "none", server |-> <<>>, minutes |-> <<>>]

\* no ProxyPool built (use_proxy off)
PoolIdle ==
    /\ proxy_urls = <<>>
    /\ pool_pc = "idle"
    /\ proxies = <<>>
    /\ stats = <<>>
    /\ current_index = 0
    /\ now = 0
    /\ call = <<>>
    /\ calls = 0
    /\ returned = 0
    /\ prev = <<>>
    /\ last_op = NoOp

\* no call completed on the manager yet
NoBmOp == [op |-> "none", result |-> "none", n |-> 0, prev |-> "none",
           was_running |-> FALSE]

\* BrowserManager::new, no task using it
BmIdle ==
    /\ bm_browser = <<>>
    /\ bm_live = {}
    /\ bm_launched = 0
    /\ bm_task = <<>>
    /\ bm_last = NoBmOp

\* no call completed on the browser pool yet
NoBpOp == [op |-> "none", result |-> "none", manager |-> 0, n |-> 0,
           stopped |-> {}]

\* no BrowserPool built
BpIdle ==
    /\ bp_max = 0
    /\ bp_browsers = <<>>
    /\ bp_live = {}
    /\ bp_started = {}
    /\ bp_made = 0
    /\ bp_last = NoBpOp

\* no parser call made
PsIdle == ps_in = <<>> /\ ps_out = <<>> /\ ps_fn = "none"

\* no scroll loop entered
SlIdle ==
    /\ sl_page = <<>>
    /\ sl_previous = 0
    /\ sl_count = 0
    /\ sl_steps = 0
    /\ sl_ended = FALSE

LkIdle ==
    /\ lk_pc = <<>>
    /\ lk_guards = <<>>
    /\ lk_writer = <<>>
    /\ lk_queue = <<>>
    /\ lk_index = <<>>

CdIdle ==
    /\ cd_cards = <<>>
    /\ cd_source = "none"
    /\ cd_all = <<>>
    /\ cd_parses = 0

OvIdle ==
    /\ ov_pc = <<>>
    /\ ov_running = FALSE
    /\ ov_lock = <<>>
    /\ ov_stop = FALSE
    /\ ov_checks = <<>>
    /\ ov_cancelled = <<>>

\* the components checked in isolation, untouched
RestIdle == SlIdle /\ LkIdle /\ CdIdle /\ OvIdle

\* the components next to the orchestrator, untouched
AuxIdle == LogsIdle /\ PoolIdle /\ BmIdle /\ BpIdle /\ PsIdle /\ RestIdle

Init ==
    /\ config \in Configs
    /\ pc \in {"cmd_reset", "start_log"}
    /\ status \in {IdleStatus, StaleStatus}
    /\ status_lock = "free"
    /\ last_log = "none"
    /\ browser = FALSE
    /\ all_products = <<>>
    /\ parsed = NoParse
    /\ cat = 0
    /\ retries = 0
    /\ delay = 0
    /\ content = "none"
    /\ previous_height = 0
    /\ no_change_count = 0
    /\ result = "none"
    /\ stop_observed = FALSE
    /\ parses_after_stop = 0
    /\ stop_requested = FALSE
    /\ AuxIdle


(* --------------------------- pure helpers ------------------------------ *)
\* variant of IsStopped: the negation of the flag is lost
IsStoppedInverted == status.is_running

\* `!self.status.lock().await.is_running`: the run was asked to stop
IsStopped == ~status.is_running

\* variant of LimitReached: `>` for `>=`
LimitReachedStrict(all) == Len(all) > config.max_products

\* `all_products.len() >= self.config.max_products as usize`
LimitReached(all) == Len(all) >= config.max_products

\* variant of RetriesExhausted: `>=` for `>`
RetriesExhaustedEarly(r) == r >= config.max_retries

\* `retries > max_retries` after a failed page.goto
RetriesExhausted(r) == r > config.max_retries

\* `2u64.pow(retries as u32)` seconds (retries <= max_retries here, far from
\* the 64 doublings a u64 holds)
Backoff(r) == BackoffBase ^ r

\* results of page.content(): the text read, named by the marker it holds, or an error
PageTexts == {"clean", "captcha", "verify", "Access Denied"}
ContentResults == PageTexts \cup {"error"}

\* `page.content().await.unwrap_or_default()`
ContentText(r) == IF r = "error" THEN "" ELSE r

\* variant of HasBlockMarker: the "Access Denied" test is missing
HasBlockMarkerNoDenied(text) == text \in {"captcha", "verify"}

\* content.contains("captcha") || contains("verify") || contains("Access Denied")
HasBlockMarker(text) == text \in {"captcha", "verify", "Access Denied"}

\* variant of Known: whole products are compared, not their ids
KnownByEquality(all, p) == \E i \in 1..Len(all) : all[i] = p

\* `all_products.iter().any(|existing| existing.tiktok_id == p.tiktok_id)`
Known(all, p) == \E i \in 1..Len(all) : all[i].tiktok_id = p.tiktok_id

\* the dedup loop: each product of the batch is pushed unless its id is present
RECURSIVE MergeProducts(_, _)
MergeProducts(all, batch) ==
    IF batch = <<>> THEN all
    ELSE MergeProducts(IF Known(all, Head(batch)) THEN all ELSE Append(all, Head(batch)),
                       Tail(batch))

\* variant of RunningProgress: `.min(99.0)` is missing
RunningProgressUncapped(len) == Pct(ProgressDone * len, config.max_products)

\* `(len as f32 / max_products as f32 * 100.0).min(99.0)`
RunningProgress(len) ==
    IF ProgressDone * len >= ProgressCap * config.max_products
    THEN Pct(ProgressCap, 1)
    ELSE Pct(ProgressDone * len, config.max_products)

\* variant of FinalStatus: the failure arm forgets `progress = 100.0`
FinalStatusErrKeepsProgress(st, res, all) ==
    IF res = "Ok"
    THEN [st EXCEPT !.is_running = FALSE, !.progress = Pct(ProgressDone, 1),
                    !.products_found = Len(all)]
    ELSE [st EXCEPT !.is_running = FALSE, !.errors = Append(@, res)]

\* variant of FinalStatus: the failure is logged but not pushed to errors
FinalStatusDropsError(st, res, all) ==
    IF res = "Ok"
    THEN [st EXCEPT !.is_running = FALSE, !.progress = Pct(ProgressDone, 1),
                    !.products_found = Len(all)]
    ELSE [st EXCEPT !.is_running = FALSE, !.progress = Pct(ProgressDone, 1)]

\* the status section after scrape_products returned
FinalStatus(st, res, all) ==
    IF res = "Ok"
    THEN [st EXCEPT !.is_running = FALSE, !.progress = Pct(ProgressDone, 1),
                    !.products_found = Len(all)]
    ELSE [st EXCEPT !.is_running = FALSE, !.progress = Pct(ProgressDone, 1),
                    !.errors = Append(@, res)]

\* variant of NextNoChange: a changed height does not reset the count
NextNoChangeNoReset(current, previous, count) == count + 1

\* current_height == previous_height counts a scroll without new content
NextNoChange(current, previous, count) ==
    IF current = previous THEN count + 1 ELSE 0

(* --------------------------- step helpers ------------------------------ *)
\* add_log: takes the status mutex, pushes the line, releases
add_log(msg) == status_lock = "free" /\ last_log' = msg

\* an Err leaves scrape_products at once (`?` or `return Err`)
Fail(kind) == result' = kind /\ pc' = "start_final"

\* the while loop is left and the for loop moves on to the next category
NextCategory ==
    /\ cat' = cat + 1
    /\ pc' = "cat_check"
    /\ previous_height' = 0
    /\ no_change_count' = 0

(* ------------------- commands.rs: scrape_tiktok_shop -------------------- *)
\* "Update state to running": the command resets the shared status
CmdReset ==
    /\ UNCHANGED aux_vars
    /\ pc = "cmd_reset"
    /\ status_lock = "free"
    /\ status' = [is_running |-> TRUE, progress |-> Pct(0, 1), products_found |-> 0,
                  errors |-> <<>>]
    /\ pc' = "cmd_prepare"
    /\ UNCHANGED <<config, status_lock, last_log, browser, all_products, parsed, cat,
                   retries, delay, content, previous_height, no_change_count, result,
                   stop_observed, parses_after_stop, stop_requested>>

\* app_data_dir()?, check_disk_space, then the scraper is built and started
CmdPrepare ==
    /\ UNCHANGED aux_vars
    /\ pc = "cmd_prepare"
    /\ \E outcome \in {"ok", "app_dir", "disk"} :
          CASE outcome = "ok" ->
                 /\ pc' = "start_log"
                 /\ UNCHANGED <<status, result>>
            [] outcome = "app_dir" ->
                 /\ pc' = "cmd_returned"
                 /\ result' = "app_dir"
                 /\ UNCHANGED status
            [] outcome = "disk" ->
                 /\ status_lock = "free"
                 /\ status' = [status EXCEPT !.is_running = FALSE,
                                             !.errors = Append(@, "disk")]
                 /\ pc' = "cmd_returned"
                 /\ result' = "disk"
    /\ UNCHANGED <<config, status_lock, last_log, browser, all_products, parsed, cat,
                   retries, delay, content, previous_height, no_change_count,
                   stop_observed, parses_after_stop, stop_requested>>

\* stop_scraper: clears is_running when it is set (and answers false otherwise)
StopScraper ==
    /\ UNCHANGED aux_vars
    /\ status_lock = "free"
    /\ status.is_running
    /\ status' = [status EXCEPT !.is_running = FALSE]
    /\ stop_requested' = TRUE
    /\ UNCHANGED <<config, pc, status_lock, last_log, browser, all_products, parsed,
                   cat, retries, delay, content, previous_height, no_change_count,
                   result, stop_observed, parses_after_stop>>

(* ----------------------- TikTokScraper::start --------------------------- *)
\* the add_log calls of start(): the opening lines, and the closing line after
\* which start() returns its result and its status guard goes out of scope
StartAddLog ==
    /\ UNCHANGED aux_vars
    /\ pc \in {"start_log", "start_final_log"}
    /\ IF pc = "start_log"
       THEN /\ add_log(IF config.safety_switch_enabled THEN "safety_on" ELSE "starting")
            /\ pc' = "start_reset"
            /\ UNCHANGED status_lock
       ELSE /\ add_log("finished")
            /\ pc' = "returned"
            /\ status_lock' = "free"
    /\ UNCHANGED <<config, status, browser, all_products, parsed, cat, retries, delay,
                   content, previous_height, no_change_count, result, stop_observed,
                   parses_after_stop, stop_requested>>

\* is_running = true, progress = 0.0, guard dropped
StartReset ==
    /\ UNCHANGED aux_vars
    /\ pc = "start_reset"
    /\ status_lock = "free"
    /\ status' = [status EXCEPT !.is_running = TRUE, !.progress = Pct(0, 1)]
    /\ pc' = "sp_browser_start"
    /\ UNCHANGED <<config, status_lock, last_log, browser, all_products, parsed, cat,
                   retries, delay, content, previous_height, no_change_count, result,
                   stop_observed, parses_after_stop, stop_requested>>

\* the status section after scrape_products; its guard `status` lives to the
\* end of start()
StartFinal ==
    /\ UNCHANGED aux_vars
    /\ pc = "start_final"
    /\ status_lock = "free"
    /\ status_lock' = "start"
    /\ status' = FinalStatus(status, result, all_products)
    /\ pc' = "start_final_log"
    /\ UNCHANGED <<config, last_log, browser, all_products, parsed, cat, retries,
                   delay, content, previous_height, no_change_count, result,
                   stop_observed, parses_after_stop, stop_requested>>

\* TikTokScraper::stop, called by a holder of the scraper once start() is
\* under way: clears is_running, then stops the browser
ScraperStop ==
    /\ UNCHANGED aux_vars
    /\ status_lock = "free"
    /\ pc \notin {"cmd_reset", "cmd_prepare", "cmd_returned"}
    /\ status' = [status EXCEPT !.is_running = FALSE]
    /\ browser' = FALSE
    /\ UNCHANGED <<config, pc, status_lock, last_log, all_products, parsed, cat,
                   retries, delay, content, previous_height, no_change_count, result,
                   stop_observed, parses_after_stop, stop_requested>>

(* ------------------- TikTokScraper::scrape_products --------------------- *)
\* self.browser.start(proxy).await.context("Failed to start browser")?
BrowserStart ==
    /\ UNCHANGED aux_vars
    /\ pc = "sp_browser_start"
    /\ \E ok \in BOOLEAN :
          IF ok THEN browser' = TRUE /\ pc' = "sp_new_page" /\ UNCHANGED result
          ELSE Fail("launch") /\ UNCHANGED browser
    /\ UNCHANGED <<config, status, status_lock, last_log, all_products, parsed, cat,
                   retries, delay, content, previous_height, no_change_count,
                   stop_observed, parses_after_stop, stop_requested>>

\* self.browser.new_page(): "Browser not started" when the manager holds none
NewPage ==
    /\ UNCHANGED aux_vars
    /\ pc = "sp_new_page"
    /\ \E ok \in BOOLEAN :
          IF browser /\ ok THEN pc' = "sp_stealth" /\ UNCHANGED result
          ELSE Fail("page")
    /\ UNCHANGED <<config, status, status_lock, last_log, browser, all_products,
                   parsed, cat, retries, delay, content, previous_height,
                   no_change_count, stop_observed, parses_after_stop, stop_requested>>

\* variant of Stealth: a failed injection is noted and the run goes on
StealthFailureIgnored ==
    /\ UNCHANGED aux_vars
    /\ pc = "sp_stealth"
    /\ \E ok \in BOOLEAN :
          /\ cat' = 1
          /\ pc' = "cat_check"
          /\ result' = IF ok THEN result ELSE "stealth"
    /\ UNCHANGED <<config, status, status_lock, last_log, browser, all_products,
                   parsed, retries, delay, content, previous_height, no_change_count,
                   stop_observed, parses_after_stop, stop_requested>>

\* generate_fingerprint, inject_stealth_scripts; then the category list is built
Stealth ==
    /\ UNCHANGED aux_vars
    /\ pc = "sp_stealth"
    /\ \E ok \in BOOLEAN :
          IF ok THEN cat' = 1 /\ pc' = "cat_check" /\ UNCHANGED result
          ELSE Fail("stealth") /\ UNCHANGED cat
    /\ UNCHANGED <<config, status, status_lock, last_log, browser, all_products,
                   parsed, retries, delay, content, previous_height, no_change_count,
                   stop_observed, parses_after_stop, stop_requested>>

\* head of the for loop: stop check, max_products check, then the log line,
\* the memory check and `retries = 0`
CatCheck ==
    /\ UNCHANGED aux_vars
    /\ pc = "cat_check"
    /\ status_lock = "free"
    /\ IF cat > NumCategories
       THEN pc' = "sp_cleanup" /\ UNCHANGED <<last_log, stop_observed, parsed>>
       ELSE IF IsStopped
       THEN /\ add_log("stopped")
            /\ stop_observed' = TRUE
            /\ pc' = "sp_cleanup"
            /\ UNCHANGED parsed
       ELSE IF LimitReached(all_products)
       THEN pc' = "sp_cleanup" /\ UNCHANGED <<last_log, stop_observed, parsed>>
       ELSE /\ \E memory_full \in BOOLEAN :
                  add_log(IF memory_full THEN "memory_full" ELSE "navigating")
            /\ parsed' = NoParse
            /\ pc' = "nav_check"
            /\ UNCHANGED stop_observed
    /\ UNCHANGED <<config, status, status_lock, browser, all_products, cat, retries,
                   delay, content, previous_height, no_change_count, result,
                   parses_after_stop, stop_requested>>

\* top of the retry loop: stop check before each page.goto
NavCheck ==
    /\ UNCHANGED aux_vars
    /\ pc = "nav_check"
    /\ status_lock = "free"
    /\ IF IsStopped
       THEN add_log("stopped") /\ stop_observed' = TRUE /\ pc' = "after_nav"
       ELSE pc' = "nav_goto" /\ UNCHANGED <<last_log, stop_observed>>
    /\ UNCHANGED <<config, status, status_lock, browser, all_products, parsed, cat,
                   retries, delay, content, previous_height, no_change_count, result,
                   parses_after_stop, stop_requested>>

\* page.goto(&url): Ok leaves the loop, Err counts a retry or fails the run
NavGoto ==
    /\ UNCHANGED aux_vars
    /\ pc = "nav_goto"
    /\ \E ok \in BOOLEAN :
          IF ok THEN pc' = "after_nav" /\ UNCHANGED <<retries, result>>
          ELSE /\ retries' = retries + 1
               /\ IF RetriesExhausted(retries + 1)
                  THEN Fail("navigate")
                  ELSE pc' = "nav_backoff" /\ UNCHANGED result
    /\ UNCHANGED <<config, status, status_lock, last_log, browser, all_products,
                   parsed, cat, delay, content, previous_height, no_change_count,
                   stop_observed, parses_after_stop, stop_requested>>

\* variant of NavBackoff: the stop check before the backoff sleep is missing
NavBackoffNoCheck ==
    /\ UNCHANGED aux_vars
    /\ pc = "nav_backoff"
    /\ status_lock = "free"
    /\ delay' = Backoff(retries)
    /\ add_log("retrying")
    /\ pc' = "nav_check"
    /\ UNCHANGED <<config, status, status_lock, browser, all_products, parsed, cat,
                   retries, content, previous_height, no_change_count, result,
                   stop_observed, parses_after_stop, stop_requested>>

\* stop check before waiting, then the backoff sleep
NavBackoff ==
    /\ UNCHANGED aux_vars
    /\ pc = "nav_backoff"
    /\ status_lock = "free"
    /\ IF IsStopped
       THEN /\ add_log("stopped")
            /\ stop_observed' = TRUE
            /\ pc' = "after_nav"
            /\ UNCHANGED delay
       ELSE /\ delay' = Backoff(retries)
            /\ add_log("retrying")
            /\ pc' = "nav_check"
            /\ UNCHANGED stop_observed
    /\ UNCHANGED <<config, status, status_lock, browser, all_products, parsed, cat,
                   retries, content, previous_height, no_change_count, result,
                   parses_after_stop, stop_requested>>

\* variant of WaitCheck: the stop check after the retry loop is missing
WaitCheckNoneAfterLoop ==
    /\ UNCHANGED aux_vars
    /\ pc \in {"after_nav", "pre_wait", "post_wait"}
    /\ status_lock = "free"
    /\ retries' = 0
    /\ delay' = 0
    /\ IF IsStopped /\ pc # "after_nav"
       THEN stop_observed' = TRUE /\ pc' = "sp_cleanup" /\ UNCHANGED last_log
       ELSE /\ UNCHANGED stop_observed
            /\ CASE pc = "after_nav" -> add_log("waiting") /\ pc' = "pre_wait"
                 [] pc = "pre_wait" -> pc' = "post_wait" /\ UNCHANGED last_log
                 [] pc = "post_wait" -> pc' = "safety" /\ UNCHANGED last_log
    /\ UNCHANGED <<config, status, status_lock, browser, all_products, parsed, cat,
                   content, previous_height, no_change_count, result,
                   parses_after_stop, stop_requested>>

\* the three stop checks around the rate-limit sleep: after the retry loop
\* (whose locals end here), before the sleep and after it
WaitCheck ==
    /\ UNCHANGED aux_vars
    /\ pc \in {"after_nav", "pre_wait", "post_wait"}
    /\ status_lock = "free"
    /\ retries' = 0
    /\ delay' = 0
    /\ IF IsStopped
       THEN stop_observed' = TRUE /\ pc' = "sp_cleanup" /\ UNCHANGED last_log
       ELSE /\ UNCHANGED stop_observed
            /\ CASE pc = "after_nav" -> add_log("waiting") /\ pc' = "pre_wait"
                 [] pc = "pre_wait" -> pc' = "post_wait" /\ UNCHANGED last_log
                 [] pc = "post_wait" -> pc' = "safety" /\ UNCHANGED last_log
    /\ UNCHANGED <<config, status, status_lock, browser, all_products, parsed, cat,
                   content, previous_height, no_change_count, result,
                   parses_after_stop, stop_requested>>

\* Safety Switch: the content is read and searched for block markers
SafetyCheck ==
    /\ UNCHANGED aux_vars
    /\ pc = "safety"
    /\ \E r \in ContentResults :
          /\ content' = r
          /\ IF HasBlockMarker(ContentText(r))
             THEN /\ add_log("bot_detected")
                  /\ IF config.safety_switch_enabled
                     THEN Fail("detection")
                     ELSE pc' = "human" /\ UNCHANGED result
             ELSE pc' = "human" /\ UNCHANGED <<last_log, result>>
    /\ UNCHANGED <<config, status, status_lock, browser, all_products, parsed, cat,
                   retries, delay, previous_height, no_change_count, stop_observed,
                   parses_after_stop, stop_requested>>

\* simulate_human_interaction when still running (its result is dropped), then
\* the scroll loop's locals are initialised; `content` is not read again
Human ==
    /\ UNCHANGED aux_vars
    /\ pc = "human"
    /\ status_lock = "free"
    /\ content' = "none"
    /\ previous_height' = 0
    /\ no_change_count' = 0
    /\ pc' = "loop_top"
    /\ UNCHANGED <<config, status, status_lock, last_log, browser, all_products,
                   parsed, cat, retries, delay, result, stop_observed,
                   parses_after_stop, stop_requested>>

\* head of the while loop: the max_products condition, the stop check, the log
LoopTop ==
    /\ UNCHANGED aux_vars
    /\ pc = "loop_top"
    /\ status_lock = "free"
    /\ IF LimitReached(all_products)
       THEN NextCategory /\ UNCHANGED <<last_log, stop_observed>>
       ELSE IF IsStopped
       THEN stop_observed' = TRUE /\ NextCategory /\ UNCHANGED last_log
       ELSE /\ add_log("analyzing")
            /\ pc' = "parse"
            /\ UNCHANGED <<cat, stop_observed, previous_height, no_change_count>>
    /\ UNCHANGED <<config, status, status_lock, browser, all_products, parsed,
                   retries, delay, content, result, parses_after_stop, stop_requested>>

\* parse_product_list(&page).await?, the dedup merge of its batch, the log
\* lines, the progress section and the limit check
ParseMerge ==
    /\ UNCHANGED aux_vars
    /\ pc = "parse"
    /\ parses_after_stop' =
          IF ~status.is_running /\ parses_after_stop < 2 THEN parses_after_stop + 1
          ELSE parses_after_stop
    /\ \E ok \in BOOLEAN :
          IF ok
          THEN /\ status_lock = "free"
               /\ \E batch \in Batches :
                     /\ all_products' = MergeProducts(all_products, batch)
                     /\ parsed' = ParseInfo(all_products, batch)
               /\ IF Len(all_products') > Len(all_products)
                  THEN add_log("added") ELSE UNCHANGED last_log
               /\ status' = [status EXCEPT
                                !.products_found = Len(all_products'),
                                !.progress = RunningProgress(Len(all_products'))]
               /\ IF LimitReached(all_products')
                  THEN NextCategory
                  ELSE /\ pc' = "scroll"
                       /\ UNCHANGED <<cat, previous_height, no_change_count>>
               /\ UNCHANGED result
          ELSE /\ Fail("parser")
               /\ UNCHANGED <<all_products, parsed, last_log, status, cat,
                              previous_height, no_change_count>>
    /\ UNCHANGED <<config, status_lock, browser, retries, delay, content,
                   stop_observed, stop_requested>>

\* the log line and page.evaluate("window.scrollTo(...)").await?
Scroll ==
    /\ UNCHANGED aux_vars
    /\ pc = "scroll"
    /\ add_log("scrolling")
    /\ parsed' = NoParse
    /\ \E ok \in BOOLEAN :
          IF ok THEN pc' = "scroll_check" /\ UNCHANGED result
          ELSE Fail("scroll")
    /\ UNCHANGED <<config, status, status_lock, browser, all_products, cat, retries,
                   delay, content, previous_height, no_change_count, stop_observed,
                   parses_after_stop, stop_requested>>

\* stop check after the scroll, then the 2 s sleep
ScrollCheck ==
    /\ UNCHANGED aux_vars
    /\ pc = "scroll_check"
    /\ status_lock = "free"
    /\ IF IsStopped
       THEN stop_observed' = TRUE /\ NextCategory
       ELSE /\ pc' = "height"
            /\ UNCHANGED <<cat, stop_observed, previous_height, no_change_count>>
    /\ UNCHANGED <<config, status, status_lock, last_log, browser, all_products,
                   parsed, retries, delay, content, result, parses_after_stop,
                   stop_requested>>

\* document.body.scrollHeight is read and compared with previous_height
Height ==
    /\ UNCHANGED aux_vars
    /\ pc = "height"
    /\ \E outcome \in {"value", "unparsable", "error"}, h \in Heights :
          IF outcome = "error"
          THEN /\ Fail("height")
               /\ UNCHANGED <<last_log, cat, previous_height, no_change_count>>
          ELSE LET current == IF outcome = "unparsable" THEN previous_height ELSE h
                   count == NextNoChange(current, previous_height, no_change_count)
               IN  /\ UNCHANGED result
                   /\ IF count >= NoChangeLimit
                      THEN add_log("end_of_page") /\ NextCategory
                      ELSE /\ no_change_count' = count
                           /\ previous_height' = current
                           /\ pc' = "loop_top"
                           /\ UNCHANGED <<last_log, cat>>
    /\ UNCHANGED <<config, status, status_lock, browser, all_products, parsed,
                   retries, delay, content, stop_observed, parses_after_stop,
                   stop_requested>>

\* "Cleanup": self.browser.stop().await?; Ok(all_products)
Cleanup ==
    /\ UNCHANGED aux_vars
    /\ pc = "sp_cleanup"
    /\ browser' = FALSE
    /\ result' = "Ok"
    /\ pc' = "start_final"
    /\ UNCHANGED <<config, status, status_lock, last_log, all_products, parsed, cat,
                   retries, delay, content, previous_height, no_change_count,
                   stop_observed, parses_after_stop, stop_requested>>

(* --------------------------- specification ----------------------------- *)
\* the steps of the task that runs scrape_tiktok_shop / start()
Orchestrator ==
    \/ CmdReset \/ CmdPrepare \/ StartAddLog \/ StartReset \/ StartFinal
    \/ BrowserStart \/ NewPage \/ Stealth \/ CatCheck \/ NavCheck \/ NavGoto
    \/ NavBackoff \/ WaitCheck \/ SafetyCheck \/ Human \/ LoopTop \/ ParseMerge
    \/ Scroll \/ ScrollCheck \/ Height \/ Cleanup

Next == Orchestrator \/ StopScraper \/ ScraperStop

Spec == Init /\ [][Next]_all_vars

(* ------------------------------ claims --------------------------------- *)
\* positions of start() after scrape_products has returned its result
AfterScrape == {"start_final", "start_final_log", "returned"}
\* positions of start() once its closing status section has been executed:
\* the run has ended and only the closing log line and the return remain
RunEnded == {"start_final_log", "returned"}
\* positions inside scrape_products
InScrape ==
    {"sp_browser_start", "sp_new_page", "sp_stealth", "cat_check", "nav_check",
     "nav_goto", "nav_backoff", "after_nav", "pre_wait", "post_wait", "safety",
     "human", "loop_top", "parse", "scroll", "scroll_check", "height", "sp_cleanup"}

\* C1: when scrape_products has returned from a run in which the browser was
\* started (any result but a launch failure), the BrowserManager holds no
\* browser, on every exit path.
BrowserReleasedOnEveryExit ==
    (pc \in AfterScrape /\ result \notin {"none", "launch"}) => ~browser

\* C2: a call of start() never comes to rest before it has returned (the task
\* always has a next step until start() or the command has returned), and
\* when it returns the closing log line is the newest entry of the log.
StartAlwaysReturns ==
    /\ pc \in {"returned", "cmd_returned"} \/ ENABLED Orchestrator
    /\ pc = "returned" => last_log = "finished"

\* C3: when a run has ended (start() has executed its closing status section),
\* is_running is false and progress is 100, whatever the result; after a
\* successful or cancelled run (result Ok) products_found is the number of
\* products returned.
RunEndStatus ==
    pc \in RunEnded =>
        /\ ~status.is_running
        /\ status.progress = Pct(100, 1)
        /\ result = "Ok" => status.products_found = Len(all_products)

\* C3 witness: a cancelled run has ended with products collected
RunEndStatusWitness ==
    /\ pc \in RunEnded
    /\ result = "Ok"
    /\ stop_observed
    /\ Len(all_products) > 0

\* positions the run passes once a stop check has seen the cleared flag
Unwinding == {"after_nav", "cat_check", "sp_cleanup"} \cup AfterScrape
\* positions of the navigation of a category up to its safety check
Navigating ==
    {"nav_check", "nav_goto", "nav_backoff", "after_nav", "pre_wait", "post_wait",
     "safety", "human"}
\* positions of the extract/scroll loop behind its head
Scrolling == {"parse", "scroll", "scroll_check", "height"}

\* C4 (as claimed): whenever scrape_products returns while is_running is
\* cleared (the run was cancelled while it was in progress), it returns Ok,
\* so that start() pushes nothing to errors.
CancelledRunReturnsOk ==
    [][(pc \in InScrape /\ ~status.is_running /\ pc' \in AfterScrape)
          => result' = "Ok"]_vars

\* C4 (amended): once a stop check of scrape_products has seen the cleared
\* flag, no page operation follows, scrape_products returns Ok with the
\* products collected so far and start() pushes nothing to errors.
ObservedStopReturnsOk ==
    stop_observed =>
        /\ pc \in Unwinding
        /\ result \in {"none", "Ok"}
        /\ pc \in RunEnded =>
              /\ result = "Ok"
              /\ status.errors = <<>>
              /\ status.products_found = Len(all_products)

\* C4 witness: a run stopped in its second category has ended
ObservedStopWitness ==
    /\ stop_observed
    /\ pc \in RunEnded
    /\ cat = 2
    /\ Len(all_products) > 0

BlockedPages == {"captcha", "verify", "Access Denied"}

\* C6: content with a block marker and the safety switch enabled ends the run
\* with the detection error, with no parse in that category or after it; with
\* the switch disabled the warning is logged and the run goes on to the
\* extraction of that page. The detection error has no other cause.
SafetySwitchDecides ==
    /\ (content \in BlockedPages /\ config.safety_switch_enabled) =>
          /\ result = "detection"
          /\ pc \in AfterScrape
          /\ parsed = NoParse
    /\ (content \in BlockedPages /\ ~config.safety_switch_enabled) =>
          /\ pc = "human"
          /\ result = "none"
          /\ last_log = "bot_detected"
    /\ result = "detection" =>
          /\ content \in BlockedPages
          /\ config.safety_switch_enabled
          /\ pc \in AfterScrape

\* C6 witness: the second category was blocked after products were collected
SafetySwitchWitness ==
    /\ result = "detection"
    /\ content = "Access Denied"
    /\ cat = 2
    /\ Len(all_products) > 0

NoDuplicateSourceIds == DistinctIds(all_products)

\* C8 witness: a batch parsed after products were collected had a product
\* that was not added
DuplicateSkippedWitness ==
    /\ pc = "scroll"
    /\ parsed.before > 0
    /\ Len(all_products) - parsed.before < parsed.len

\* a first batch of exactly max_products well-formed products with
\* pairwise different ids
FullCleanPage ==
    /\ parsed.before = 0
    /\ parsed.clean
    /\ parsed.len = config.max_products
    /\ parsed.len > 0

\* C9: with max_products products accumulated the run is at no scroll step
\* and at no step of a navigation; and after a first batch of exactly
\* max_products well-formed products with different ids the run holds exactly
\* these, all with a title and a source id, and ends successfully.
LimitStopsRun ==
    /\ pc \in Scrolling \cup Navigating => Len(all_products) < config.max_products
    /\ FullCleanPage =>
          /\ pc \in {"cat_check", "sp_cleanup"} \cup AfterScrape
          /\ Len(all_products) = config.max_products
          /\ \A i \in 1..Len(all_products) :
                all_products[i].title # "" /\ all_products[i].tiktok_id # 0
          /\ result \in {"none", "Ok"}
          /\ pc \in RunEnded =>
                result = "Ok" /\ status.products_found = config.max_products

\* C9 witness: such a run with max_products = 2 has ended, not cancelled
LimitStopsRunWitness ==
    /\ pc \in RunEnded
    /\ FullCleanPage
    /\ config.max_products = 2
    /\ ~stop_observed
    /\ result = "Ok"

\* C10: a run that ended with an error has exactly one entry in errors, the
\* one that describes this error; until then, and after a successful or
\* cancelled run, it has none.
RunErrorsEntry ==
    /\ [](/\ pc \in InScrape \cup {"start_final"} => status.errors = <<>>
          /\ pc \in RunEnded =>
                status.errors = IF result = "Ok" THEN <<>> ELSE <<result>>)
    /\ [][(pc \in InScrape \cup {"start_log", "start_reset"}) =>
              (status'.errors = status.errors)]_vars
    /\ [][(pc = "start_final" /\ pc' # pc) =>
              (status'.errors = IF result = "Ok" THEN status.errors
                                ELSE Append(status.errors, result))]_vars

\* C10 witness: a run has ended on a stealth injection failure
RunErrorsWitness ==
    /\ pc \in RunEnded
    /\ result = "stealth"
    /\ status.errors = <<"stealth">>

(* ====================== the rolling log of add_log ===================== *)
\* add_log keeps the last 50 entries
LogCap == 50
\* add_log calls of one behaviour
MaxPushes == 110

\* the orchestrator at rest, for the behaviours of the other components
OrchIdle ==
    /\ config = [max_products |-> 0, max_retries |-> 0, categories |-> 0,
                 safety_switch_enabled |-> FALSE]
    /\ pc = "idle"
    /\ status = IdleStatus
    /\ status_lock = "free"
    /\ last_log = "none"
    /\ browser = FALSE
    /\ all_products = <<>>
    /\ parsed = NoParse
    /\ cat = 0
    /\ retries = 0
    /\ delay = 0
    /\ content = "none"
    /\ previous_height = 0
    /\ no_change_count = 0
    /\ result = "none"
    /\ stop_observed = FALSE
    /\ parses_after_stop = 0
    /\ stop_requested = FALSE

\* a variant of PushLog that gives up the entry just pushed
PushLogDropsNewest(l, entry) ==
    LET grown == Append(l, entry)
    IN  IF Len(grown) > LogCap THEN SubSeq(grown, 1, LogCap) ELSE grown

\* status.logs.push(log_entry); if status.logs.len() > 50 { status.logs.remove(0) }
PushLog(l, entry) ==
    LET grown == Append(l, entry)
    IN  IF Len(grown) > LogCap THEN Tail(grown) ELSE grown

\* one add_log call; its entry, timestamped, is told apart by its number
AddLog ==
    /\ pushed < MaxPushes
    /\ status_lock = "free"
    /\ pushed' = pushed + 1
    /\ logs' = PushLog(logs, pushed + 1)
    /\ UNCHANGED <<vars, pool_vars, bm_vars, bp_vars, ps_vars, rest_vars>>

InitLog == OrchIdle /\ AuxIdle

NextLog == AddLog

SpecLog == InitLog /\ [][NextLog]_all_vars

\* C11: logs holds at most 50 entries, the most recently pushed ones in push
\* order; after 60 pushes it holds exactly pushes 11 to 60.
LogsKeepLastFifty ==
    /\ Len(logs) <= 50
    /\ Len(logs) = IF pushed <= 50 THEN pushed ELSE 50
    /\ \A i \in 1..Len(logs) : logs[i] = pushed - Len(logs) + i
    /\ pushed = 60 => logs = [i \in 1..50 |-> 10 + i]

\* C11 witness: 60 lines were pushed and 50 are kept
LogsSixtyPushedWitness == pushed = 60 /\ Len(logs) = 50 /\ logs[1] = 11

(* ============================ the proxy pool ============================ *)
\* entries of the proxy list given to ProxyPool::new
MaxUrls == 2
\* endpoints of a pool in use
MaxProxies == 2
\* get_next calls of one behaviour
MaxCalls == 12
\* report_failure calls per endpoint
MaxFailures == 3
\* report_success calls per endpoint
MaxSuccess == 1
\* the clock is advanced while it is below MaxNow
MaxNow == 1
\* tasks that call get_next on the pool
NumCallers == 2

\* unwrap_or(30): the cooldown of report_failure when none is given
DefaultBlockMinutes == 30
\* s.total_requests >= 5
MinRequests == 5

\* A string is a sequence of tokens: the separators "://", "@" and ":" and
\* runs of other characters. The proxy strings of the behaviours:
\*   a:80     socks5://u:p@b:80     u@a:80 (a user without a password)
\*   b (a host without a port)
SampleUrls ==
    { <<"a", ":", "80">>,
      <<"socks5", "://", "u", ":", "p", "@", "b", ":", "80">>,
      <<"u", "@", "a", ":", "80">>,
      <<"b">> }

ProxyUrlLists == SeqsUpTo(SampleUrls, MaxUrls)

\* the proxy lists of the pools in use: n well-formed entries with the hosts
\* 1 to n, for every n up to MaxProxies
PoolUrlLists == {[i \in 1..n |-> <<ToString(i), ":", "80">>] : n \in 0..MaxProxies}

\* index of the first / last occurrence of a separator, 0 if there is none
FirstIndex(str, sep) ==
    IF \E i \in 1..Len(str) : str[i] = sep
    THEN CHOOSE i \in 1..Len(str) :
            str[i] = sep /\ \A j \in 1..(i - 1) : str[j] # sep
    ELSE 0
LastIndex(str, sep) ==
    IF \E i \in 1..Len(str) : str[i] = sep
    THEN CHOOSE i \in 1..Len(str) :
            str[i] = sep /\ \A j \in (i + 1)..Len(str) : str[j] # sep
    ELSE 0

\* str.split(sep).collect()
RECURSIVE Split(_, _)
Split(str, sep) ==
    LET i == FirstIndex(str, sep)
    IN  IF i = 0 THEN <<str>>
        ELSE <<SubSeq(str, 1, i - 1)>> \o Split(SubSeq(str, i + 1, Len(str)), sep)

\* parse_proxy_url: Some(ProxyConfig) as a one-element sequence (None would
\* be the empty one, which this function never returns)
ParseProxyUrl(url) ==
    LET parts == Split(url, "://")
        protocol == IF Len(parts) > 1 THEN parts[1] ELSE <<"http">>
        rest == IF Len(parts) > 1 THEN parts[2] ELSE parts[1]
        at == LastIndex(rest, "@")
        hostport == SubSeq(rest, at + 1, Len(rest))
        auth_parts == Split(SubSeq(rest, 1, at - 1), ":")
        both == at # 0 /\ Len(auth_parts) = 2
    IN  << [server |-> protocol \o <<"://">> \o hostport,
            username |-> IF both THEN <<auth_parts[1]>> ELSE <<>>,
            password |-> IF both THEN <<auth_parts[2]>> ELSE <<>>] >>

\* filter_map(parse_proxy_url).collect()
RECURSIVE ParseAll(_)
ParseAll(urls) ==
    IF urls = <<>> THEN <<>>
    ELSE ParseProxyUrl(Head(urls)) \o ParseAll(Tail(urls))

\* ProxyStats::default()
ZeroStats ==
    [success_count |-> 0, failure_count |-> 0, total_requests |-> 0,
     last_used |-> <<>>, is_blocked |-> FALSE, blocked_until |-> <<>>]

Servers(ps) == {ps[i].server : i \in 1..Len(ps)}

Callers == 1..NumCallers

\* a variant of IsAvailable that never lets a blocked endpoint back
IsAvailableWhileUnblocked(s, t) == ~s.is_blocked

\* !s.is_blocked || s.blocked_until.map_or(false, |t| now > t)
IsAvailable(s, t) ==
    ~s.is_blocked \/ (s.blocked_until # <<>> /\ t > s.blocked_until[1])

\* get_available: the configured endpoints that are available at time t
Available(ps, st, t) == SelectSeq(ps, LAMBDA p : IsAvailable(st[p.server], t))

\* *index = (*index + 1) % available.len()
NextIndex(i, n) == (i + 1) % n

\* a variant of Stamp that counts the request twice
StampTwice(s, t) == [s EXCEPT !.last_used = <<t>>, !.total_requests = @ + 2]

\* s.last_used = Some(Utc::now()); s.total_requests += 1
Stamp(s, t) == [s EXCEPT !.last_used = <<t>>, !.total_requests = @ + 1]

\* a variant of ShouldBlock that blocks at a failure rate of exactly one half
ShouldBlockAtHalf(s) ==
    /\ 2 * s.failure_count >= (IF s.total_requests > 1 THEN s.total_requests ELSE 1)
    /\ s.total_requests >= MinRequests

\* failure_rate > 0.5 && s.total_requests >= 5, with
\* failure_rate = failure_count / total_requests.max(1)
ShouldBlock(s) ==
    /\ 2 * s.failure_count > (IF s.total_requests > 1 THEN s.total_requests ELSE 1)
    /\ s.total_requests >= MinRequests

\* block_minutes.unwrap_or(30)
BlockMinutes(block_minutes) ==
    IF block_minutes = <<>> THEN DefaultBlockMinutes ELSE block_minutes[1]

\* the body of report_failure on the endpoint's record
Failed(s, block_minutes, t) ==
    LET counted == [s EXCEPT !.failure_count = @ + 1]
    IN  IF ShouldBlock(counted)
        THEN [counted EXCEPT !.is_blocked = TRUE,
                             !.blocked_until = <<t + BlockMinutes(block_minutes)>>]
        ELSE counted

\* the cooldowns callers pass to report_failure: none, or one minute
BlockChoices == {<<>>, <<1>>}

\* ProxyPool::new
PoolNew ==
    /\ pool_pc = "new"
    /\ pool_pc' = "ready"
    /\ proxies' = ParseAll(proxy_urls)
    /\ stats' = [sv \in Servers(proxies') |-> ZeroStats]
    /\ current_index' = 0
    /\ UNCHANGED <<proxy_urls, now, call, calls, returned, prev, last_op>>
    /\ UNCHANGED <<vars, log_vars, bm_vars, bp_vars, ps_vars, rest_vars>>

\* get_next, first part: get_available, and return None when it is empty
GetAvailable(c) ==
    /\ pool_pc = "ready"
    /\ call[c].pc = "idle"
    /\ calls < MaxCalls
    /\ calls' = calls + 1
    /\ LET available == Available(proxies, stats, now)
       IN  IF available = <<>>
           THEN /\ UNCHANGED call
                /\ last_op' = [op |-> "next", server |-> <<>>, minutes |-> <<>>]
           ELSE /\ call' = [call EXCEPT ![c] = [pc |-> "picked",
                                                 available |-> available]]
                /\ UNCHANGED last_op
    /\ UNCHANGED <<proxy_urls, pool_pc, proxies, stats, current_index, now, returned,
                   prev>>
    /\ UNCHANGED <<vars, log_vars, bm_vars, bp_vars, ps_vars, rest_vars>>

\* get_next, second part, under the write lock of current_index: advance the
\* index, pick the endpoint from the list of the first part, update its record
GetNextCommit(c) ==
    /\ call[c].pc = "picked"
    /\ LET available == call[c].available
           index == NextIndex(current_index, Len(available))
           proxy == available[index + 1]
       IN  /\ current_index' = index
           /\ stats' = [stats EXCEPT ![proxy.server] = Stamp(@, now)]
           /\ call' = [call EXCEPT ![c] = NoCall]
           /\ prev' = <<proxy>>
           /\ last_op' = [op |-> "next", server |-> proxy.server, minutes |-> <<>>]
    /\ returned' = returned + 1
    /\ UNCHANGED <<proxy_urls, pool_pc, proxies, now, calls>>
    /\ UNCHANGED <<vars, log_vars, bm_vars, bp_vars, ps_vars, rest_vars>>

\* report_success on an endpoint of the pool
ReportSuccess ==
    /\ pool_pc = "ready"
    /\ \E i \in 1..Len(proxies) :
          LET sv == proxies[i].server
          IN  /\ stats[sv].success_count < MaxSuccess
              /\ stats' = [stats EXCEPT ![sv].success_count = @ + 1]
              /\ last_op' = [op |-> "success", server |-> sv, minutes |-> <<>>]
    /\ UNCHANGED <<proxy_urls, pool_pc, proxies, current_index, now, call, calls,
                   returned, prev>>
    /\ UNCHANGED <<vars, log_vars, bm_vars, bp_vars, ps_vars, rest_vars>>

\* report_failure on an endpoint of the pool
ReportFailure ==
    /\ pool_pc = "ready"
    /\ \E i \in 1..Len(proxies), block_minutes \in BlockChoices :
          LET sv == proxies[i].server
          IN  /\ stats[sv].failure_count < MaxFailures
              /\ stats' = [stats EXCEPT ![sv] = Failed(@, block_minutes, now)]
              /\ last_op' = [op |-> "failure", server |-> sv,
                             minutes |-> block_minutes]
    /\ UNCHANGED <<proxy_urls, pool_pc, proxies, current_index, now, call, calls,
                   returned, prev>>
    /\ UNCHANGED <<vars, log_vars, bm_vars, bp_vars, ps_vars, rest_vars>>

\* time passes: a minute, or a default cooldown
Tick ==
    /\ pool_pc = "ready"
    /\ now < MaxNow
    /\ \E d \in {1, DefaultBlockMinutes} : now' = now + d
    /\ UNCHANGED <<proxy_urls, pool_pc, proxies, stats, current_index, call, calls,
                   returned, prev, last_op>>
    /\ UNCHANGED <<vars, log_vars, bm_vars, bp_vars, ps_vars, rest_vars>>

InitPool ==
    /\ OrchIdle
    /\ LogsIdle
    /\ BmIdle
    /\ BpIdle
    /\ PsIdle
    /\ RestIdle
    /\ proxy_urls \in PoolUrlLists
    /\ pool_pc = "new"
    /\ proxies = <<>>
    /\ stats = <<>>
    /\ current_index = 0
    /\ now = 0
    /\ call = [c \in Callers |-> NoCall]
    /\ calls = 0
    /\ returned = 0
    /\ prev = <<>>
    /\ last_op = NoOp

NextPool ==
    \/ PoolNew
    \/ \E c \in Callers : GetAvailable(c)
    \/ \E c \in Callers : GetNextCommit(c)
    \/ ReportSuccess
    \/ ReportFailure
    \/ Tick

SpecPool == InitPool /\ [][NextPool]_all_vars

\* ProxyPool::new on any list of proxy strings, then get_next calls of one task
InitPoolNew ==
    /\ OrchIdle
    /\ LogsIdle
    /\ BmIdle
    /\ BpIdle
    /\ PsIdle
    /\ RestIdle
    /\ proxy_urls \in ProxyUrlLists
    /\ pool_pc = "new"
    /\ proxies = <<>>
    /\ stats = <<>>
    /\ current_index = 0
    /\ now = 0
    /\ call = [c \in Callers |-> NoCall]
    /\ calls = 0
    /\ returned = 0
    /\ prev = <<>>
    /\ last_op = NoOp

NextPoolNew == PoolNew \/ GetAvailable(1) \/ GetNextCommit(1)

SpecPoolNew == InitPoolNew /\ [][NextPoolNew]_all_vars

(* -------------------------- claims on the pool -------------------------- *)
\* the step is a report_failure call / the start of a get_next call / the
\* return of an endpoint by a get_next call
FailureReported == last_op'.op = "failure" /\ stats' # stats
NextBegun == calls' = calls + 1
NextReturned == returned' = returned + 1

\* C12: report_failure adds one to the endpoint's failure_count and blocks it
\* until now + cooldown (30 minutes by default) exactly when failure_count /
\* total_requests then exceeds 0.5 with total_requests >= 5; otherwise its
\* blocked state stays as it was; nothing else of any record changes.
ReportFailureRule ==
    [][FailureReported =>
         LET sv == last_op'.server
             minutes == IF last_op'.minutes = <<>> THEN 30 ELSE last_op'.minutes[1]
             old == stats[sv]
             new == stats'[sv]
             blocked == IF 2 * new.failure_count > new.total_requests
                           /\ new.total_requests >= 5
                        THEN [is_blocked |-> TRUE, blocked_until |-> <<now + minutes>>]
                        ELSE [is_blocked |-> old.is_blocked,
                              blocked_until |-> old.blocked_until]
         IN  stats' = [stats EXCEPT ![sv] =
                          [old EXCEPT !.failure_count = old.failure_count + 1,
                                      !.is_blocked = blocked.is_blocked,
                                      !.blocked_until = blocked.blocked_until]]
    ]_all_vars

\* C12 witness: the third failure of an endpoint with five requests, reported
\* without a cooldown, has just blocked it for 30 minutes
ReportFailureBlockedWitness ==
    /\ last_op.op = "failure"
    /\ last_op.minutes = <<>>
    /\ stats[last_op.server].failure_count = 3
    /\ stats[last_op.server].total_requests = 5
    /\ stats[last_op.server].is_blocked
    /\ stats[last_op.server].blocked_until = <<now + 30>>

\* the endpoints that are not blocked or are past their cooldown
Selectable ==
    SelectSeq(proxies,
              LAMBDA p : \/ ~stats[p.server].is_blocked
                         \/ /\ stats[p.server].blocked_until # <<>>
                            /\ now > stats[p.server].blocked_until[1])

\* C13: a get_next call returns None exactly when it finds no endpoint that is
\* non-blocked or past its cooldown, changing nothing; otherwise it returns one
\* of the endpoints it found, sets last_used and adds one to total_requests of
\* that endpoint, and changes no other record.
NextReturnsAvailable ==
    /\ [][NextBegun =>
            /\ stats' = stats
            /\ returned' = returned
            /\ IF Selectable = <<>>
               THEN call' = call /\ last_op' = [op |-> "next", server |-> <<>>,
                                                minutes |-> <<>>]
               ELSE \E c \in Callers :
                       /\ call[c].pc = "idle"
                       /\ call' = [call EXCEPT ![c] = [pc |-> "picked",
                                                       available |-> Selectable]]
         ]_all_vars
    /\ [][NextReturned =>
            \E c \in Callers :
               /\ call[c].pc = "picked"
               /\ call'[c].pc = "idle"
               /\ \E i \in 1..Len(call[c].available) : prev' = <<call[c].available[i]>>
               /\ last_op' = [op |-> "next", server |-> prev'[1].server,
                              minutes |-> <<>>]
               /\ stats' = [stats EXCEPT ![prev'[1].server] =
                               [@ EXCEPT !.last_used = <<now>>,
                                         !.total_requests = @ + 1]]
         ]_all_vars

\* C13 witness: get_next has just returned an endpoint that was blocked and is
\* past its cooldown
NextReturnsCooledWitness ==
    /\ last_op.op = "next"
    /\ last_op.server # <<>>
    /\ stats[last_op.server].is_blocked
    /\ stats[last_op.server].blocked_until[1] < now
    /\ stats[last_op.server].last_used = <<now>>

\* C14: an endpoint is not returned twice in a row when the call finds another
\* endpoint available (the call's list being the current one, no other call
\* in progress).
RoundRobinNeverRepeats ==
    [][(NextReturned /\ prev # <<>>) =>
         \A c \in Callers :
            ( /\ call[c].pc = "picked"
              /\ call'[c].pc = "idle"
              /\ \A d \in Callers \ {c} : call[d].pc = "idle"
              /\ call[c].available = Selectable
              /\ \E i \in 1..Len(call[c].available) :
                    call[c].available[i].server # prev[1].server )
            => prev' # prev
    ]_all_vars

\* C15: an endpoint with 5 total requests and 3 or more failures is blocked,
\* and is not selectable while now <= blocked_until.
FailingEndpointIsBlocked ==
    pool_pc = "ready" =>
        \A sv \in DOMAIN stats :
           (stats[sv].total_requests = 5 /\ stats[sv].failure_count >= 3) =>
               /\ stats[sv].is_blocked
               /\ stats[sv].blocked_until # <<>>
               /\ now <= stats[sv].blocked_until[1] =>
                     \A i \in 1..Len(Selectable) : Selectable[i].server # sv

\* sum of total_requests over the records of the pool
RECURSIVE SumRequests(_, _)
SumRequests(st, servers) ==
    IF servers = {} THEN 0
    ELSE LET sv == CHOOSE x \in servers : TRUE
         IN  st[sv].total_requests + SumRequests(st, servers \ {sv})

\* C16: under every interleaving of get_next calls the total_requests of all
\* endpoints add up to the number of calls that returned an endpoint, and each
\* such call moves the index one place on in the list it selects from.
NextCountsEachCallOnce ==
    /\ [](pool_pc = "ready" => SumRequests(stats, DOMAIN stats) = returned)
    /\ [][NextReturned =>
            \E c \in Callers :
               /\ call[c].pc = "picked"
               /\ current_index' = (current_index + 1) % Len(call[c].available)
               /\ prev' = <<call[c].available[current_index' + 1]>>
               /\ stats'[prev'[1].server].total_requests =
                     stats[prev'[1].server].total_requests + 1
         ]_all_vars

\* C16 witness: all callers are between the two parts of a get_next call,
\* after calls that returned endpoints of a pool of two
NextConcurrentWitness ==
    /\ \A c \in Callers : call[c].pc = "picked"
    /\ returned >= 2
    /\ Len(proxies) = 2
    /\ stats[proxies[1].server].total_requests > 0
    /\ stats[proxies[2].server].total_requests > 0

\* the strings of the form [scheme://][user:pass@]host:port
UrlWords == {"a", "b", "u", "p", "socks5"}
WellFormedUrls ==
    { scheme \o auth \o <<host, ":", "80">> :
        scheme \in {<<>>} \cup {<<w, "://">> : w \in UrlWords},
        auth \in {<<>>} \cup {<<w[1], ":", w[2], "@">> : w \in UrlWords \X UrlWords},
        host \in UrlWords }

\* C17: the pool holds one endpoint for each well-formed entry of its input
\* and none for a malformed one.
PoolKeepsWellFormedOnly ==
    pool_pc = "ready" =>
        Len(proxies) = Len(SelectSeq(proxy_urls, LAMBDA url : url \in WellFormedUrls))

(* ========================= the browser manager ========================== *)
\* browsers launched in one behaviour
MaxLaunches == 3
\* calls completed on the manager in one behaviour
MaxBmOps == 5
\* tasks that call start() on the manager
NumStarters == 2

Starters == 1..NumStarters

\* the browsers the tasks have launched and not yet stored
InFlight == UNION {{bm_task[t][i] : i \in 1..Len(bm_task[t])} : t \in Starters}
\* the browsers the manager owns
Owned == {bm_browser[i] : i \in 1..Len(bm_browser)}

\* a variant of HasBrowser that takes every manager for a started one
HasBrowserAlways(b) == TRUE

\* browser.as_ref().context("Browser not started") is Ok
HasBrowser(b) == b # <<>>

\* a variant of Dropped in which a dropped Browser keeps running
DroppedKeepsRunning(live, dropped) == live

\* drop of Option<Browser>: the browser "will cleanup on drop"
Dropped(live, dropped) == live \ {dropped[i] : i \in 1..Len(dropped)}

\* a variant of StopResult that refuses to stop a manager without a browser
StopResultStrict(b) == IF b = <<>> THEN "not_started" ELSE "Ok"

\* stop() ends with Ok(()) whether or not take() gave a browser
StopResult(b) == "Ok"

\* the record of a completed call
Completed(op, res) ==
    [op |-> op, result |-> res, n |-> bm_last.n + 1, prev |-> bm_last.op,
     was_running |-> bm_browser # <<>>]

\* start(), up to Browser::launch: the config is built and the browser
\* launched, or one of the two fails and start() returns the error
BmLaunch(t) ==
    /\ bm_task[t] = <<>>
    /\ bm_last.n < MaxBmOps
    /\ bm_launched < MaxLaunches
    /\ \E outcome \in {"ok", "build", "launch"} :
          IF outcome = "ok"
          THEN /\ bm_launched' = bm_launched + 1
               /\ bm_live' = bm_live \cup {bm_launched + 1}
               /\ bm_task' = [bm_task EXCEPT ![t] = <<bm_launched + 1>>]
               /\ UNCHANGED bm_last
          ELSE /\ bm_last' = Completed("start", outcome)
               /\ UNCHANGED <<bm_launched, bm_live, bm_task>>
    /\ UNCHANGED bm_browser
    /\ UNCHANGED <<vars, log_vars, pool_vars, bp_vars, ps_vars, rest_vars>>

\* start(), the end: *self.browser.lock().await = Some(browser), which drops
\* the value held before
BmStore(t) ==
    /\ bm_task[t] # <<>>
    /\ bm_browser' = bm_task[t]
    /\ bm_live' = Dropped(bm_live, bm_browser)
    /\ bm_task' = [bm_task EXCEPT ![t] = <<>>]
    /\ bm_last' = Completed("start", "Ok")
    /\ UNCHANGED bm_launched
    /\ UNCHANGED <<vars, log_vars, pool_vars, bp_vars, ps_vars, rest_vars>>

\* new_page(): "Browser not started" without a browser; with one, the page is
\* created or the browser fails to create it
BmNewPage ==
    /\ bm_last.n < MaxBmOps
    /\ \E created \in BOOLEAN :
          bm_last' = Completed("new_page",
                               IF ~HasBrowser(bm_browser) THEN "not_started"
                               ELSE IF created THEN "Ok" ELSE "page_failed")
    /\ UNCHANGED <<bm_browser, bm_live, bm_launched, bm_task>>
    /\ UNCHANGED <<vars, log_vars, pool_vars, bp_vars, ps_vars, rest_vars>>

\* stop(): browser.take(), drop
BmStop ==
    /\ bm_last.n < MaxBmOps
    /\ bm_browser' = <<>>
    /\ bm_live' = Dropped(bm_live, bm_browser)
    /\ bm_last' = Completed("stop", StopResult(bm_browser))
    /\ UNCHANGED <<bm_launched, bm_task>>
    /\ UNCHANGED <<vars, log_vars, pool_vars, bp_vars, ps_vars, rest_vars>>

InitBrowser ==
    /\ OrchIdle
    /\ LogsIdle
    /\ PoolIdle
    /\ BpIdle
    /\ PsIdle
    /\ RestIdle
    /\ bm_browser = <<>>
    /\ bm_live = {}
    /\ bm_launched = 0
    /\ bm_task = [t \in Starters |-> <<>>]
    /\ bm_last = NoBmOp

NextBrowser ==
    \/ \E t \in Starters : BmLaunch(t)
    \/ \E t \in Starters : BmStore(t)
    \/ BmNewPage
    \/ BmStop

SpecBrowser == InitBrowser /\ [][NextBrowser]_all_vars

(* --------------------- claims on the browser manager -------------------- *)
\* the step completes a call of the kind op on the manager
BmOpDone(op) == bm_last'.n = bm_last.n + 1 /\ bm_last'.op = op

\* C18: new_page fails with "not started" exactly on a manager that owns no
\* browser (never started, start failed, or stopped), succeeds only on one
\* that owns a browser, and changes nothing of the manager.
NewPageNeedsBrowser ==
    /\ [](bm_last.op = "new_page" =>
             /\ (bm_last.result = "not_started") <=> (bm_browser = <<>>)
             /\ bm_last.result = "Ok" => bm_browser # <<>> /\ Owned \subseteq bm_live)
    /\ [][BmOpDone("new_page") =>
             UNCHANGED <<bm_browser, bm_live, bm_launched, bm_task>>]_all_vars

\* C18 witness: new_page has failed on a manager that was started and stopped
NewPageAfterStopWitness ==
    /\ bm_last.op = "new_page"
    /\ bm_last.result = "not_started"
    /\ bm_last.prev = "stop"
    /\ bm_launched > 0

\* C19: stop returns Ok and leaves the manager without a browser, whether it
\* owned one or not; a stop that follows a stop changes nothing.
StopIsIdempotent ==
    /\ [](bm_last.op = "stop" => bm_last.result = "Ok" /\ bm_browser = <<>>)
    /\ [][BmOpDone("stop") =>
             /\ bm_browser' = <<>>
             /\ bm_live' = bm_live \ Owned
             /\ UNCHANGED <<bm_launched, bm_task>>]_all_vars
    /\ [][(BmOpDone("stop") /\ bm_last.op = "stop") =>
             UNCHANGED <<bm_browser, bm_live>>]_all_vars

\* C19 witness: a manager that was running has been stopped twice in a row
StopTwiceWitness ==
    /\ bm_last.op = "stop"
    /\ bm_last.prev = "stop"
    /\ ~bm_last.was_running
    /\ bm_launched > 0

\* C20: the manager owns at most one browser; the running browsers are the one
\* it owns and those a start() in progress has launched and not yet stored, so
\* that with no start() in progress at most one is running. It owns none
\* before the first start, one after a successful start, none after stop; a
\* failed start changes nothing.
OneBrowserPerManager ==
    /\ [](/\ Len(bm_browser) <= 1
          /\ bm_live = Owned \cup InFlight
          /\ InFlight = {} => Cardinality(bm_live) <= 1
          /\ bm_launched = 0 => bm_browser = <<>>
          /\ (bm_last.op = "start" /\ bm_last.result = "Ok") => bm_browser # <<>>)
    /\ [][(BmOpDone("start") /\ bm_last'.result # "Ok") =>
             UNCHANGED <<bm_browser, bm_live>>]_all_vars
    /\ [][BmOpDone("stop") => bm_browser' = <<>>]_all_vars

\* C20 witness: a second start has succeeded on a running manager, and one
\* browser is running
SecondStartWitness ==
    /\ bm_last.op = "start"
    /\ bm_last.result = "Ok"
    /\ bm_last.was_running
    /\ bm_launched >= 2
    /\ InFlight = {}
    /\ Cardinality(bm_live) = 1

(* ===================== scraper/pool.rs: BrowserPool ===================== *)
MaxPoolSize == 2
MaxPoolOps == 5

\* a variant of PoolHasRoom that admits one manager more
PoolHasRoomInclusive(len, max) == len <= max

\* self.browsers.len() < self.max_browsers
PoolHasRoom(len, max) == len < max

\* the managers the pool holds
PoolMembers == {bp_browsers[i] : i \in 1..Len(bp_browsers)}

\* the record of a completed call
BpCompleted(op, res, manager, stopped) ==
    [op |-> op, result |-> res, manager |-> manager, n |-> bp_last.n + 1,
     stopped |-> stopped]

\* the pool can be called: the task that owns it has not panicked
BpUsable == bp_last.n < MaxPoolOps /\ bp_last.result # "panic"

\* get_browser(): with room, a new manager is started and pushed, or its
\* start() fails and the error is returned; without room the first manager is
\* returned, and indexing an empty Vec panics
GetBrowser ==
    /\ BpUsable
    /\ IF PoolHasRoom(Len(bp_browsers), bp_max)
       THEN LET manager == bp_made + 1
            IN  /\ bp_made' = manager
                /\ \E started \in BOOLEAN :
                      IF started
                      THEN /\ bp_browsers' = Append(bp_browsers, manager)
                           /\ bp_live' = bp_live \cup {manager}
                           /\ bp_started' = bp_started \cup {manager}
                           /\ bp_last' = BpCompleted("get_browser", "Ok",
                                                     manager, {})
                      ELSE /\ bp_last' = BpCompleted("get_browser", "Err", 0, {})
                           /\ UNCHANGED <<bp_browsers, bp_live, bp_started>>
       ELSE /\ bp_last' = IF bp_browsers = <<>>
                          THEN BpCompleted("get_browser", "panic", 0, {})
                          ELSE BpCompleted("get_browser", "Ok", bp_browsers[1], {})
            /\ UNCHANGED <<bp_browsers, bp_live, bp_started, bp_made>>
    /\ UNCHANGED bp_max
    /\ UNCHANGED <<vars, log_vars, pool_vars, bm_vars, ps_vars, rest_vars>>

\* shutdown(): stop() on every manager of the pool, then browsers.clear()
Shutdown ==
    /\ BpUsable
    /\ bp_live' = bp_live \ PoolMembers
    /\ bp_browsers' = <<>>
    /\ bp_last' = BpCompleted("shutdown", "Ok", 0, PoolMembers)
    /\ UNCHANGED <<bp_max, bp_started, bp_made>>
    /\ UNCHANGED <<vars, log_vars, pool_vars, bm_vars, ps_vars, rest_vars>>

\* a caller that was handed a manager calls stop() on its Arc
HolderStop ==
    /\ BpUsable
    /\ \E manager \in bp_started :
          /\ bp_live' = bp_live \ {manager}
          /\ bp_last' = BpCompleted("stop", "Ok", manager, {manager})
    /\ UNCHANGED <<bp_max, bp_browsers, bp_started, bp_made>>
    /\ UNCHANGED <<vars, log_vars, pool_vars, bm_vars, ps_vars, rest_vars>>

\* BrowserPool::new(max_browsers, headless)
InitBrowserPool ==
    /\ OrchIdle
    /\ LogsIdle
    /\ PoolIdle
    /\ BmIdle
    /\ PsIdle
    /\ RestIdle
    /\ bp_max \in 0..MaxPoolSize
    /\ bp_browsers = <<>>
    /\ bp_live = {}
    /\ bp_started = {}
    /\ bp_made = 0
    /\ bp_last = NoBpOp

NextBrowserPool == GetBrowser \/ Shutdown \/ HolderStop

SpecBrowserPool == InitBrowserPool /\ [][NextBrowserPool]_all_vars

(* ----------------------- claims on the browser pool --------------------- *)
\* the step completes a call of the kind op on the pool
BpOpDone(op) == bp_last'.n = bp_last.n + 1 /\ bp_last'.op = op

\* C21: the pool never holds more than max_browsers managers and holds none
\* twice; a manager returned by get_browser was started and is in the pool;
\* the pool gives up a manager only in shutdown, which stops every manager
\* the pool holds and leaves the pool empty and no browser of it running.
BrowserPoolContract ==
    /\ [](/\ Len(bp_browsers) <= bp_max
          /\ Cardinality(PoolMembers) = Len(bp_browsers)
          /\ bp_live \subseteq PoolMembers
          /\ (bp_last.op = "get_browser" /\ bp_last.result = "Ok") =>
                bp_last.manager \in bp_started \cap PoolMembers
          /\ bp_last.op = "shutdown" =>
                /\ bp_last.result = "Ok"
                /\ bp_browsers = <<>>
                /\ bp_live = {})
    /\ [][BpOpDone("shutdown") =>
             /\ bp_last'.stopped = PoolMembers
             /\ bp_live' \cap PoolMembers = {}]_all_vars
    /\ [][~BpOpDone("shutdown") => PoolMembers \subseteq PoolMembers']_all_vars

\* C21 witness: a pool that held two managers has been shut down as the
\* fourth call or later
PoolShutdownWitness ==
    /\ bp_last.op = "shutdown"
    /\ Cardinality(bp_last.stopped) >= 2
    /\ bp_made >= 2
    /\ bp_last.n >= 4

(* ==================== scraper/parser.rs: TikTokParser =================== *)
MaxItems == 2
MaxElements == 1

\* serde_json values of a field: the key is absent, or its value is a string,
\* an integer that fits i64, or anything else (null stands for these)
Absent == [t |-> "absent", s |-> "", n |-> 0]
JsonNull == [t |-> "null", s |-> "", n |-> 0]
JsonStr(s) == [t |-> "str", s |-> s, n |-> 0]
JsonInt(n) == [t |-> "int", s |-> ToString(n), n |-> n]

IdValues == {Absent, JsonNull, JsonStr("p1"), JsonInt(7)}
StockValues == {Absent, JsonStr("many"), JsonInt(5)}

\* the elements of the structured-state array, as far as their id and stock
\* keys go
Items ==
    [id : IdValues, productId : IdValues, product_id : IdValues,
     stock : StockValues, stockLevel : StockValues, quantity : StockValues]

\* the elements that listing pages are drawn from
ListingItems ==
    {[id |-> a, productId |-> b, product_id |-> Absent,
      stock |-> Absent, stockLevel |-> Absent, quantity |-> Absent] :
        a \in {Absent, JsonNull, JsonStr("p1")}, b \in {Absent, JsonInt(7)}}

\* Value::get(a).or_else(|| Value::get(b)): b is looked up only when the key
\* a is absent
OrElse(a, b) == IF a.t # "absent" THEN a ELSE b

\* get("id").or_else(productId).or_else(product_id).and_then(as_str or as_i64)
TiktokId(data) ==
    LET v == OrElse(OrElse(data.id, data.productId), data.product_id)
    IN  IF v.t \in {"str", "int"} THEN <<v.s>> ELSE <<>>

\* get("stock").or_else(stockLevel).or_else(quantity).and_then(as_i64)
StockLevel(data) ==
    LET v == OrElse(OrElse(data.stock, data.stockLevel), data.quantity)
    IN  IF v.t = "int" THEN <<v.n>> ELSE <<>>

\* the Product fields the parser claims are about; from is "json" or the
\* selector that matched the element
ParsedProduct(from, tiktok_id, stock_level) ==
    [from |-> from, tiktok_id |-> tiktok_id, stock_level |-> stock_level]

\* parse_product_json: Err("Missing product ID") as <<>>, Ok(product) as
\* <<product>>; extract_price and parse_sales_count never fail
ParseProductJson(data) ==
    IF TiktokId(data) = <<>> THEN <<>>
    ELSE <<ParsedProduct("json", TiktokId(data)[1], StockLevel(data))>>

\* a variant of ParseItems that gives up at the first element that fails
RECURSIVE ParseItemsUntilBad(_)
ParseItemsUntilBad(arr) ==
    IF arr = <<>> \/ ParseProductJson(Head(arr)) = <<>> THEN <<>>
    ELSE ParseProductJson(Head(arr)) \o ParseItemsUntilBad(Tail(arr))

\* arr.iter().filter_map(|item| self.parse_product_json(item).ok()).collect()
RECURSIVE ParseItems(_)
ParseItems(arr) ==
    IF arr = <<>> THEN <<>>
    ELSE ParseProductJson(Head(arr)) \o ParseItems(Tail(arr))

\* the selectors of TikTokParser::new(None)
BuiltInSelectors ==
    <<"[data-e2e='product-card']", ".product-card", ".product-item">>

\* a string that Selector::parse rejects
BadSelector == "??"

\* the selector lists a caller may supply
OverrideLists == {<<".item", ".product-card">>, <<BadSelector, ".product-item">>}

\* the argument of TikTokParser::new: None as <<>>, Some(list) as <<list>>
SelectorOptions == {<<>>} \cup {<<l>> : l \in OverrideLists}

\* the selectors that can match something in a document
ValidSelectors ==
    {BuiltInSelectors[i] : i \in 1..Len(BuiltInSelectors)} \cup {".item"}

\* a variant of Selectors that ignores the list supplied
SelectorsBuiltInOnly(option) == BuiltInSelectors

\* selectors.unwrap_or_else(|| vec![built-in])
Selectors(option) == IF option = <<>> THEN BuiltInSelectors ELSE option[1]

\* what page.evaluate(script) gives: an error, or a value that is null, not a
\* string, a string that is not JSON, JSON that is no array, or an array
EvalKinds == {"error", "null", "not_string", "not_json", "not_array"}
EvalOutcomes ==
    {[kind |-> k, items |-> <<>>] : k \in EvalKinds}
    \cup {[kind |-> "array", items |-> arr] : arr \in SeqsUpTo(ListingItems, MaxItems)}

\* what page.content() gives: an error, or a document, of which the model
\* keeps how many elements each selector matches
HtmlOutcomes ==
    {[ok |-> FALSE, found |-> [sel \in ValidSelectors |-> 0]]}
    \cup {[ok |-> TRUE, found |-> f] : f \in [ValidSelectors -> 0..MaxElements]}

\* a parser and the page it is called on
Pages == [selectors : SelectorOptions, eval : EvalOutcomes, html : HtmlOutcomes]

\* Result<Vec<Product>>
OkProducts(products) == [ok |-> TRUE, products |-> products]
ErrProducts == [ok |-> FALSE, products |-> <<>>]

\* parse_product_element on the elements a selector matched: it returns Ok for
\* every element, stock_level None, the id taken from the link or random
ParseElements(html, sel) ==
    [i \in 1..html.found[sel] |-> ParsedProduct(sel, ToString(i), <<>>)]

\* the for loop of parse_product_list_from_dom, from the i-th selector on
RECURSIVE SelectFrom(_, _, _)
SelectFrom(html, selectors, i) ==
    IF i > Len(selectors) THEN OkProducts(<<>>)
    ELSE IF selectors[i] \in ValidSelectors /\ html.found[selectors[i]] > 0
         THEN OkProducts(ParseElements(html, selectors[i]))
         ELSE SelectFrom(html, selectors, i + 1)

\* parse_product_list_from_dom
ParseProductListFromDom(html, selectors) ==
    IF ~html.ok THEN ErrProducts ELSE SelectFrom(html, selectors, 1)

\* parse_product_list
ParseProductList(page) ==
    IF page.eval.kind = "error" THEN ErrProducts
    ELSE LET products == IF page.eval.kind = "array"
                         THEN ParseItems(page.eval.items) ELSE <<>>
         IN  IF products # <<>> THEN OkProducts(products)
             ELSE ParseProductListFromDom(page.html, Selectors(page.selectors))

\* parser.parse_product_list(&page) is called
CallParseProductList ==
    /\ ps_fn = "none"
    /\ ps_out' = ParseProductList(ps_in)
    /\ ps_fn' = "parse_product_list"
    /\ UNCHANGED ps_in
    /\ UNCHANGED <<vars, log_vars, pool_vars, bm_vars, bp_vars, rest_vars>>

\* any parser, any page
InitListing ==
    /\ OrchIdle
    /\ LogsIdle
    /\ PoolIdle
    /\ BmIdle
    /\ BpIdle
    /\ RestIdle
    /\ ps_in \in Pages
    /\ ps_out = <<>>
    /\ ps_fn = "none"

NextListing == CallParseProductList

SpecListing == InitListing /\ [][NextListing]_all_vars

\* parse_product_json is called on an element
CallParseProductJson ==
    /\ ps_fn = "none"
    /\ ps_out' = ParseProductJson(ps_in)
    /\ ps_fn' = "parse_product_json"
    /\ UNCHANGED ps_in
    /\ UNCHANGED <<vars, log_vars, pool_vars, bm_vars, bp_vars, rest_vars>>

\* any element
InitItem ==
    /\ OrchIdle
    /\ LogsIdle
    /\ PoolIdle
    /\ BmIdle
    /\ BpIdle
    /\ RestIdle
    /\ ps_in \in Items
    /\ ps_out = <<>>
    /\ ps_fn = "none"

NextItem == CallParseProductJson

SpecItem == InitItem /\ [][NextItem]_all_vars

(* --------------------------- claims on the parser ----------------------- *)
\* the page of a completed parse_product_list call
ListingDone == ps_fn = "parse_product_list"

\* the selectors the claim has the parser try: the list supplied, else the
\* built-in one
ListingSelectors ==
    IF ps_in.selectors = <<>> THEN BuiltInSelectors ELSE ps_in.selectors[1]

\* the structured-state strategy yields at least one product
StructuredYields ==
    /\ ps_in.eval.kind = "array"
    /\ \E i \in 1..Len(ps_in.eval.items) : TiktokId(ps_in.eval.items[i]) # <<>>

\* the i-th selector matches at least one element of the document
SelectorYields(i) ==
    /\ ListingSelectors[i] \in ValidSelectors
    /\ ps_in.html.found[ListingSelectors[i]] > 0

\* the result is the outcome of the strategies, first non-empty one winning
FirstYieldWins ==
    /\ ps_out.ok
    /\ StructuredYields =>
          /\ ps_out.products # <<>>
          /\ \A i \in 1..Len(ps_out.products) : ps_out.products[i].from = "json"
    /\ ~StructuredYields =>
          IF \E i \in 1..Len(ListingSelectors) : SelectorYields(i)
          THEN LET first == CHOOSE i \in 1..Len(ListingSelectors) :
                               /\ SelectorYields(i)
                               /\ \A j \in 1..(i - 1) : ~SelectorYields(j)
                   sel == ListingSelectors[first]
               IN  /\ Len(ps_out.products) = ps_in.html.found[sel]
                   /\ \A i \in 1..Len(ps_out.products) :
                         ps_out.products[i].from = sel
          ELSE ps_out.products = <<>>

\* the original reading of C22: whatever the page calls do, parse_listing
\* returns Ok with the first non-empty strategy's products, or the empty list.
ListingNeverFails == ListingDone => FirstYieldWins

\* the page calls the result needs have succeeded: the script evaluation,
\* and the content read when the structured state yields nothing
PageCallsOk ==
    /\ ps_in.eval.kind # "error"
    /\ StructuredYields \/ ps_in.html.ok

\* C22: when the page calls succeed, parse_listing returns the structured-
\* state products if there is at least one, else the products of the first
\* selector (override list if supplied, else built-in) that matches, else the
\* empty list; when the script evaluation fails, or the structured state
\* yields nothing and the content read fails, it returns the error.
ListingFirstNonEmptyWins ==
    ListingDone => IF PageCallsOk THEN FirstYieldWins ELSE ~ps_out.ok

\* C22 witness: the structured state held only elements without an id, the
\* first selector of an override list was invalid, and the products of the
\* second selector were returned
ListingFallbackWitness ==
    /\ ListingDone
    /\ ps_in.eval.kind = "array"
    /\ ps_in.eval.items # <<>>
    /\ ps_in.selectors # <<>>
    /\ ListingSelectors[1] = BadSelector
    /\ ps_out.ok
    /\ ps_out.products # <<>>
    /\ ps_out.products[1].from = ListingSelectors[2]

\* the element has none of id, productId, product_id with a string or an
\* integer under it
NoUsableId(item) ==
    \A v \in {item.id, item.productId, item.product_id} : v.t \notin {"str", "int"}

\* the positions of the array whose element parse_product_json accepts
Accepted == {i \in 1..Len(ps_in.eval.items) : TiktokId(ps_in.eval.items[i]) # <<>>}

\* the position of the k-th accepted element
AcceptedAt(k) ==
    CHOOSE i \in Accepted : Cardinality({j \in Accepted : j <= i}) = k

RECURSIVE FirstUsable(_, _)
FirstUsable(values, types) ==
    IF values = <<>> THEN Absent
    ELSE IF Head(values).t \in types THEN Head(values)
         ELSE FirstUsable(Tail(values), types)

\* C24: the source id is the value of the first of id, productId, product_id
\* that holds a string or an integer, and the element fails only when none
\* does; stock_level is the value of the first of stock, stockLevel, quantity
\* that holds an integer, and none when none does.
FirstUsableKeySupplies ==
    ps_fn = "parse_product_json" =>
        LET id == FirstUsable(<<ps_in.id, ps_in.productId, ps_in.product_id>>,
                              {"str", "int"})
            stock == FirstUsable(<<ps_in.stock, ps_in.stockLevel, ps_in.quantity>>,
                                 {"int"})
        IN  IF id = Absent THEN ps_out = <<>>
            ELSE /\ ps_out # <<>>
                 /\ ps_out[1].tiktok_id = id.s
                 /\ ps_out[1].stock_level =
                       IF stock = Absent THEN <<>> ELSE <<stock.n>>

(* ----------------- parser.rs: parse_price_text, numbers ----------------- *)
MaxPriceLen == 5

\* texts are sequences of characters
DigitChars == {"0", "1", "2", "3", "4", "5", "6", "7", "8", "9"}
DigitValue(c) == CHOOSE d \in 0..9 : ToString(d) = c

\* the characters price texts are built from
PriceChars == {"0", "1", ",", ".", "$"}
PriceTexts == SeqsUpTo(PriceChars, MaxPriceLen)

\* a non-negative decimal number: its integer part and its decimals, without
\* trailing zeros
Number(whole, frac) == [whole |-> whole, frac |-> frac]
Zero == Number(0, <<>>)

\* str.matches(ch).count()
CountChar(str, ch) == Cardinality({i \in 1..Len(str) : str[i] = ch})

\* str.replace(ch, to), to being empty or one character
RECURSIVE ReplaceChar(_, _, _)
ReplaceChar(str, ch, to) ==
    IF str = <<>> THEN <<>>
    ELSE (IF Head(str) = ch THEN to ELSE <<Head(str)>>)
         \o ReplaceChar(Tail(str), ch, to)

\* the value of a string of digits, 0 for the empty one
RECURSIVE WholeValue(_)
WholeValue(ds) ==
    IF ds = <<>> THEN 0
    ELSE 10 * WholeValue(SubSeq(ds, 1, Len(ds) - 1)) + DigitValue(ds[Len(ds)])

\* the decimals a string of digits stands for
RECURSIVE Decimals(_)
Decimals(ds) ==
    IF ds = <<>> THEN <<>>
    ELSE IF ds[Len(ds)] = "0" THEN Decimals(SubSeq(ds, 1, Len(ds) - 1))
         ELSE [i \in 1..Len(ds) |-> DigitValue(ds[i])]

\* str.parse::<f64>() on digits and dots: Err as <<>>, Ok(x) as <<x>>; "5."
\* and ".5" are numbers, "", "." and "1.2.3" are not
ParseF64(str) ==
    IF \/ \E i \in 1..Len(str) : str[i] \notin DigitChars \cup {"."}
       \/ CountChar(str, ".") > 1
       \/ \A i \in 1..Len(str) : str[i] = "."
    THEN <<>>
    ELSE LET d == FirstIndex(str, ".")
         IN  IF d = 0 THEN <<Number(WholeValue(str), <<>>)>>
             ELSE <<Number(WholeValue(SubSeq(str, 1, d - 1)),
                           Decimals(SubSeq(str, d + 1, Len(str))))>>

\* text.chars().filter(|c| c.is_ascii_digit() || *c == ',' || *c == '.')
IsPriceChar(c) == c \in DigitChars \cup {",", "."}
Cleaned(text) == SelectSeq(text, IsPriceChar)

\* a variant of ThousandsDot that never takes a dot for a thousands separator
ThousandsDotNever(cleaned, d) == FALSE

\* cleaned.len() - d - 1 == 3, d counted from 1 here
ThousandsDot(cleaned, d) == Len(cleaned) - d = 3

\* parse_price_text
ParsePriceText(text) ==
    LET cleaned == Cleaned(text)
        last_comma == LastIndex(cleaned, ",")
        last_dot == LastIndex(cleaned, ".")
        normalized ==
            IF last_comma > 0 /\ last_dot > 0
            THEN IF last_comma > last_dot
                 THEN ReplaceChar(ReplaceChar(cleaned, ".", <<>>), ",", <<".">>)
                 ELSE ReplaceChar(cleaned, ",", <<>>)
            ELSE IF last_comma > 0
            THEN ReplaceChar(cleaned, ",", <<".">>)
            ELSE IF last_dot > 0
            THEN IF CountChar(cleaned, ".") > 1
                 THEN ReplaceChar(cleaned, ".", <<>>)
                 ELSE IF ThousandsDot(cleaned, last_dot)
                      THEN ReplaceChar(cleaned, ".", <<>>)
                      ELSE cleaned
            ELSE cleaned
    IN  IF cleaned = <<>> THEN Zero
        ELSE IF ParseF64(normalized) = <<>> THEN Zero
             ELSE ParseF64(normalized)[1]

\* parse_price_text is called on a text
CallParsePriceText ==
    /\ ps_fn = "none"
    /\ ps_out' = ParsePriceText(ps_in)
    /\ ps_fn' = "parse_price_text"
    /\ UNCHANGED ps_in
    /\ UNCHANGED <<vars, log_vars, pool_vars, bm_vars, bp_vars, rest_vars>>

\* any text
InitPrice ==
    /\ OrchIdle
    /\ LogsIdle
    /\ PoolIdle
    /\ BmIdle
    /\ BpIdle
    /\ RestIdle
    /\ ps_in \in PriceTexts
    /\ ps_out = <<>>
    /\ ps_fn = "none"

NextPrice == CallParsePriceText

SpecPrice == InitPrice /\ [][NextPrice]_all_vars

(* ------------------------- claims on price parsing ---------------------- *)
\* the digits of a text
IsDigit(c) == c \in DigitChars
Digits(text) == SelectSeq(text, IsDigit)

\* the text is read as a number whose decimal point is the character point:
\* the digits before it and the digits after it; 0.0 when the text has no
\* digit or more than one such character
ReadDecimal(text, point) ==
    IF Digits(text) = <<>> \/ CountChar(text, point) > 1 THEN Zero
    ELSE LET p == FirstIndex(text, point)
         IN  IF p = 0 THEN Number(WholeValue(text), <<>>)
             ELSE Number(WholeValue(SubSeq(text, 1, p - 1)),
                         Decimals(SubSeq(text, p + 1, Len(text))))

\* the characters of the text other than ch
Without(text, ch) == SelectSeq(text, LAMBDA c : c # ch)

\* the price the rules give for a text
RulePrice(text) ==
    LET kept == SelectSeq(text, LAMBDA c : c \in DigitChars \cup {",", "."})
        commas == CountChar(kept, ",")
        dots == CountChar(kept, ".")
        rightmost == IF kept # <<>> /\ \E i \in 1..Len(kept) : kept[i] \in {",", "."}
                     THEN kept[CHOOSE i \in 1..Len(kept) :
                                  /\ kept[i] \in {",", "."}
                                  /\ \A j \in (i + 1)..Len(kept) : kept[j] \notin {",", "."}]
                     ELSE "."
        other == IF rightmost = "," THEN "." ELSE ","
    IN  IF commas > 0 /\ dots > 0 THEN ReadDecimal(Without(kept, other), rightmost)
        ELSE IF commas > 0 THEN ReadDecimal(kept, ",")
        ELSE IF dots > 1 THEN ReadDecimal(Without(kept, "."), ".")
        ELSE IF dots = 1 /\ Len(kept) - FirstIndex(kept, ".") = 3
             THEN ReadDecimal(Without(kept, "."), ".")
        ELSE ReadDecimal(kept, ".")

\* C25: the price of a text is the one the rules give: both separators, the
\* rightmost is the decimal point and the other kind is dropped; commas only,
\* the comma is the decimal point; several dots, all are dropped; one dot and
\* three digits after it, the dot is dropped; one dot otherwise, it is the
\* decimal point; no digit, or more than one decimal point left, 0.0. The
\* examples of the specification come out as stated.
PriceFollowsRules ==
    /\ ps_fn = "parse_price_text" => ps_out = RulePrice(ps_in)
    /\ ParsePriceText(<<"1", ".", "2", "3", "4", ",", "5", "6">>) = Number(1234, <<5, 6>>)
    /\ ParsePriceText(<<"1", ",", "2", "3", "4", ".", "5", "6">>) = Number(1234, <<5, 6>>)
    /\ ParsePriceText(<<"2", "9", ",", "9", "0">>) = Number(29, <<9>>)
    /\ ParsePriceText(<<"R", "$", " ", "1", ".", "2", "3", "4">>) = Number(1234, <<>>)
    /\ ParsePriceText(<<>>) = Zero

\* C25 witness: a text with a currency sign, one dot and three digits after
\* the dot was read as a whole number of thousands
PriceThousandsWitness ==
    /\ ps_fn = "parse_price_text"
    /\ CountChar(ps_in, "$") = 1
    /\ CountChar(ps_in, ".") = 1
    /\ CountChar(ps_in, ",") = 0
    /\ Len(Cleaned(ps_in)) - FirstIndex(Cleaned(ps_in), ".") = 3
    /\ ps_out.frac = <<>>
    /\ ps_out.whole >= 100

(* ---------------------- parser.rs: parse_sales_text --------------------- *)
MaxCountLen == 4
I32Max == 2147483647
Thousand == 1000
Million == 1000000

\* the characters count texts are built from
CountChars == {"1", "5", ".", ",", "k", "M", "s", " "}
CountTexts == SeqsUpTo(CountChars, MaxCountLen)

\* text.to_lowercase()
LowerChar(c) == IF c = "M" THEN "m" ELSE IF c = "K" THEN "k" ELSE c
ToLowercase(text) == [i \in 1..Len(text) |-> LowerChar(text[i])]

\* str.contains(ch)
Contains(str, ch) == \E i \in 1..Len(str) : str[i] = ch

\* str.trim_end_matches(ch): every ch at the end is taken off
RECURSIVE TrimEndMatches(_, _)
TrimEndMatches(str, ch) ==
    IF str # <<>> /\ str[Len(str)] = ch
    THEN TrimEndMatches(SubSeq(str, 1, Len(str) - 1), ch)
    ELSE str

\* str.trim(): white space is taken off both ends
RECURSIVE Trim(_)
Trim(str) ==
    IF str # <<>> /\ str[1] = " " THEN Trim(Tail(str))
    ELSE IF str # <<>> /\ str[Len(str)] = " "
         THEN Trim(SubSeq(str, 1, Len(str) - 1))
         ELSE str

\* digits.parse::<i32>(): Err as <<>> on the empty string and on overflow
RECURSIVE ParseI32(_)
ParseI32(ds) ==
    IF ds = <<>> THEN <<>>
    ELSE IF Len(ds) = 1 THEN <<DigitValue(ds[1])>>
    ELSE LET front == ParseI32(SubSeq(ds, 1, Len(ds) - 1))
             d == DigitValue(ds[Len(ds)])
         IN  IF front = <<>> \/ front[1] > (I32Max - d) \div 10 THEN <<>>
             ELSE <<10 * front[1] + d>>

\* the first n decimals of a number as an integer
RECURSIVE FracPart(_, _)
FracPart(frac, n) ==
    IF n = 0 THEN 0
    ELSE 10 * FracPart(frac, n - 1) + (IF n <= Len(frac) THEN frac[n] ELSE 0)

\* (val * multiplier) as i32 for multiplier 10^places: the product is cut to
\* its integer part and saturates at i32::MAX
ScaleAsI32(val, multiplier, places) ==
    LET most == I32Max \div multiplier
        part == FracPart(val.frac, places)
    IN  IF val.whole > most \/ (val.whole = most /\ part > I32Max - most * multiplier)
        THEN I32Max
        ELSE val.whole * multiplier + part

\* parse_sales_text
ParseSalesText(text) ==
    LET text_lower == ToLowercase(text)
        multiplier == IF Contains(text_lower, "k") THEN Thousand
                      ELSE IF Contains(text_lower, "m") THEN Million ELSE 1
        num_part == ReplaceChar(Trim(TrimEndMatches(TrimEndMatches(text_lower, "k"),
                                                    "m")),
                                ",", <<".">>)
        digits == ParseI32(SelectSeq(text, LAMBDA c : c \in DigitChars))
    IN  IF multiplier > 1 /\ ParseF64(num_part) # <<>>
        THEN ScaleAsI32(ParseF64(num_part)[1], multiplier,
                        IF multiplier = Thousand THEN 3 ELSE 6)
        ELSE IF digits = <<>> THEN 0 ELSE digits[1]

\* parse_sales_text is called on a text
CallParseSalesText ==
    /\ ps_fn = "none"
    /\ ps_out' = ParseSalesText(ps_in)
    /\ ps_fn' = "parse_sales_text"
    /\ UNCHANGED ps_in
    /\ UNCHANGED <<vars, log_vars, pool_vars, bm_vars, bp_vars, rest_vars>>

\* any text
InitCount ==
    /\ OrchIdle
    /\ LogsIdle
    /\ PoolIdle
    /\ BmIdle
    /\ BpIdle
    /\ RestIdle
    /\ ps_in \in CountTexts
    /\ ps_out = <<>>
    /\ ps_fn = "none"

NextCount == CallParseSalesText

SpecCount == InitCount /\ [][NextCount]_all_vars

(* ------------------------- claims on count parsing ---------------------- *)
\* text that is neither part of a number nor a suffix
IsFiller(c) == c \in {"s", " "}

\* the text without the filler before and after it
RECURSIVE Surrounded(_)
Surrounded(text) ==
    IF text # <<>> /\ IsFiller(text[1]) THEN Surrounded(Tail(text))
    ELSE IF text # <<>> /\ IsFiller(text[Len(text)])
         THEN Surrounded(SubSeq(text, 1, Len(text) - 1))
         ELSE text

\* C26: "1.5k" gives 1500, "2M" 2000000, "1.234" 1234 and "" 0, and the count
\* of a text is the count of the same text without the non-numeric text that
\* surrounds the number and its suffix.
CountIgnoresSurroundingText ==
    /\ ParseSalesText(<<"1", ".", "5", "k">>) = 1500
    /\ ParseSalesText(<<"2", "M">>) = 2000000
    /\ ParseSalesText(<<"1", ".", "2", "3", "4">>) = 1234
    /\ ParseSalesText(<<>>) = 0
    /\ ps_fn = "parse_sales_text" => ps_out = ParseSalesText(Surrounded(ps_in))

(* ------------------ claims on the orchestrator, continued --------------- *)
\* C27: the status section at the head of start() leaves the status reset:
\* is_running set, progress 0, products_found 0 and no errors, whoever
\* called start() and whatever an earlier run has left in the status.
StartResetsStatus ==
    [][(pc = "start_reset" /\ pc' = "sp_browser_start") =>
          status' = [is_running |-> TRUE, progress |-> Pct(0, 1),
                     products_found |-> 0, errors |-> <<>>]]_vars

\* C28: at every point where the orchestrator is suspended (between two of
\* its steps) the status mutex is free, so that a poll can take it.
StatusGuardNeverHeldAcrossAwait == status_lock = "free"

\* the positions of the retry loop
RetryLoop == {"nav_check", "nav_goto", "nav_backoff"}

\* C29: a page.goto is attempted only from a stop check that found the flag
\* set to running, and a backoff sleep is started only from one that did; a
\* check of the retry loop that finds the flag cleared leaves the loop without
\* a sleep; once a stop has been observed the flag stays cleared, the run is
\* never in the retry loop again, for this category or a later one, and no
\* backoff delay is set.
StopEndsNavigation ==
    /\ [](stop_observed => ~status.is_running /\ pc \notin RetryLoop)
    /\ [][(pc' = "nav_goto" /\ pc # "nav_goto") =>
             pc = "nav_check" /\ status.is_running]_vars
    /\ [][(pc = "nav_backoff" /\ pc' = "nav_check") =>
             status.is_running /\ delay' = Backoff(retries)]_vars
    /\ [][(pc \in {"nav_check", "nav_backoff"} /\ pc' # pc /\ ~status.is_running) =>
             stop_observed' /\ pc' = "after_nav" /\ delay' = delay]_vars
    /\ [][stop_observed => delay' \in {delay, 0}]_vars

\* C29 witness: the first attempt of a category failed and the stop was seen
\* by the check before the backoff sleep, which was not started
StopBeforeBackoffWitness ==
    /\ stop_observed
    /\ pc = "after_nav"
    /\ last_log = "stopped"
    /\ retries = 1
    /\ delay = 0

\* the orchestrator takes the step that reads the page height
HeightStep == pc = "height" /\ pc' # "height"

\* what a height step does when the read gives no error: it goes on scrolling
\* with the count reset exactly when the height has changed and raised by one,
\* below the limit, when it has not; or it ends the pagination of the
\* category, which it does from a count one below the limit, without an
\* error, and the run goes to the next category
HeightStepRule ==
    /\ result' = result
    /\ pc' \in {"loop_top", "cat_check"}
    /\ pc' = "loop_top" =>
          /\ cat' = cat
          /\ (no_change_count' = 0) <=> (previous_height' # previous_height)
          /\ previous_height' = previous_height =>
                /\ no_change_count' = no_change_count + 1
                /\ no_change_count' < NoChangeLimit
    /\ pc' = "cat_check" =>
          /\ no_change_count = NoChangeLimit - 1
          /\ last_log' = "end_of_page"
          /\ cat' = cat + 1
          /\ no_change_count' = 0

MaxReads == 5

\* the orchestrator, the log, the pools, the manager and the parser
core_vars == <<vars, log_vars, pool_vars, bm_vars, bp_vars, ps_vars>>
CoreIdle == OrchIdle /\ LogsIdle /\ PoolIdle /\ BmIdle /\ BpIdle /\ PsIdle

\* the pages: the height before the first scroll and the heights read after
\* the scrolls, one per scroll step
ScrollPages == [initial : Heights, reads : [1..MaxReads -> Heights]]

\* one iteration of the while loop that neither stops nor fails: the scroll,
\* the height read, the comparison with previous_height and the count
ScrollStep ==
    /\ ~sl_ended
    /\ sl_steps < MaxReads
    /\ LET current_height == sl_page.reads[sl_steps + 1]
           count == NextNoChange(current_height, sl_previous, sl_count)
       IN  /\ sl_steps' = sl_steps + 1
           /\ sl_count' = count
           /\ sl_ended' = (count >= NoChangeLimit)
           /\ sl_previous' = IF count >= NoChangeLimit THEN sl_previous
                             ELSE current_height
    /\ UNCHANGED sl_page
    /\ UNCHANGED <<core_vars, lk_vars, cd_vars, ov_vars>>

\* `let mut previous_height = 0; let mut no_change_count = 0;` on any page
InitScroll ==
    /\ CoreIdle
    /\ LkIdle
    /\ CdIdle
    /\ OvIdle
    /\ sl_page \in ScrollPages
    /\ sl_previous = 0
    /\ sl_count = 0
    /\ sl_steps = 0
    /\ sl_ended = FALSE

NextScroll == ScrollStep

SpecScroll == InitScroll /\ [][NextScroll]_all_vars

(* ------------------------- claims on the scroll loop -------------------- *)
\* scrolling has not changed the height of the page so far
HeightNeverChanged ==
    \A i \in 1..sl_steps : sl_page.reads[i] = sl_page.initial

\* C31: on a page whose height scrolling never changes every scroll step,
\* the first included, counts as a scroll without change, and the pagination
\* ends with the third scroll step.
ConstantPageEndsAfterThree ==
    HeightNeverChanged =>
        /\ sl_count = sl_steps
        /\ sl_ended <=> sl_steps = NoChangeLimit

(* ------------------ claims on the orchestrator, continued --------------- *)
\* a percentage is at most another one
PctLeq(a, b) == a.num * b.den <= b.num * a.den

\* the orchestrator takes a parse-and-merge step that does not fail
MergeStep == pc = "parse" /\ pc' \notin {"parse", "start_final"}

\* positions of a run whose status has been marked running and whose closing
\* status section has not been executed
RunInProgress == InScrape \cup {"cmd_prepare", "start_final"}

\* C32: a merge step leaves products_found at the number of products
\* accumulated and progress at min(99, 100 * found / max_products); no step
\* but the two resets at the start of a run lowers progress; and progress is
\* below 100 at every position between the reset and the closing status
\* section of start().
ProgressTracksProducts ==
    /\ [][MergeStep =>
             LET found == Len(all_products')
             IN  /\ status'.products_found = found
                 /\ IF 100 * found >= 99 * config.max_products
                    THEN status'.progress.num = 99 * status'.progress.den
                    ELSE status'.progress.num * config.max_products
                            = 100 * found * status'.progress.den]_vars
    /\ [][pc \notin {"cmd_reset", "start_reset"} =>
             PctLeq(status.progress, status'.progress)]_vars
    /\ [](pc \in RunInProgress => ~PctLeq(Pct(100, 1), status.progress))

\* C32 witness: a merge step has left one product of two wanted, and progress
\* at 50
ProgressHalfWitness ==
    /\ pc = "scroll"
    /\ config.max_products = 2
    /\ Len(all_products) = 1
    /\ status.products_found = 1
    /\ status.progress = Pct(100, 2)

\* the startup steps of scrape_products, and the positions before its
\* category loop
StartupSteps == {"sp_browser_start", "sp_new_page", "sp_stealth"}
BeforeCategories ==
    {"cmd_reset", "cmd_prepare", "start_log", "start_reset"} \cup StartupSteps
StartupFailures == {"launch", "page", "stealth"}

\* C33: the browser is started from the status section that marks the run
\* running, the page is opened after the browser was started, stealth is
\* applied after the page was opened, and the category loop, where alone a
\* page.goto is attempted, is entered only when the stealth injection has
\* succeeded; before that nothing is navigated, and a run whose startup step
\* failed has left scrape_products without entering the category loop.
StartupOrder ==
    /\ [][pc' # pc =>
             /\ pc' = "sp_browser_start" => pc = "start_reset" /\ status'.is_running
             /\ pc' = "sp_new_page" => pc = "sp_browser_start" /\ browser'
             /\ pc' = "sp_stealth" => pc = "sp_new_page" /\ browser
             /\ (pc \in BeforeCategories /\ pc' \in InScrape \ StartupSteps) =>
                   pc = "sp_stealth" /\ pc' = "cat_check" /\ result' = "none"
             /\ pc' = "nav_goto" => pc = "nav_check"
             /\ (pc \in StartupSteps /\ result' # result) =>
                   result' \in StartupFailures /\ pc' = "start_final"]_vars
    /\ [](pc \in BeforeCategories =>
             cat = 0 /\ retries = 0 /\ content = "none" /\ all_products = <<>>)
    /\ [](result \in StartupFailures => pc \in AfterScrape /\ cat = 0)

\* C33 witness: the stealth injection failed after the browser was started
\* and the page opened, and the run has ended without a navigation
StealthFailedWitness ==
    /\ pc \in RunEnded
    /\ result = "stealth"
    /\ cat = 0
    /\ content = "none"


\* C34 (as the specification states it): the list a run returns never holds
\* more than max_products products.
ReturnedWithinLimit ==
    (pc \in RunEnded /\ result = "Ok") => Len(all_products) <= config.max_products


(* ------------------- the stats lock of a ProxyPool ---------------------- *)
\* The stats map sits behind a tokio RwLock, which hands the lock out in the
\* order of arrival: a reader that arrives while a writer waits is queued
\* behind that writer.  The tasks are the callers of get_next and report_*
\* and one task that calls get_stats_summary.

\* tasks that call get_next, report_success or report_failure
NumLockCallers == 2

LkCallers == 1..NumLockCallers
SummaryTask == NumLockCallers + 1
LkTasks == LkCallers \cup {SummaryTask}

Queued(t) == \E i \in 1..Len(lk_queue) : lk_queue[i].task = t
NoReaders(g) == \A t \in LkTasks : g[t] = 0

LockState(q, g, w) == [queue |-> q, guards |-> g, writer |-> w]

\* stats.read().await / stats.write().await: the guard is handed out at once
\* when the lock allows it and nobody waits, else the task joins the queue
Request(t, kind) ==
    IF lk_queue = <<>> /\ lk_writer = <<>> /\ (kind = "read" \/ NoReaders(lk_guards))
    THEN IF kind = "read"
         THEN LockState(lk_queue, [lk_guards EXCEPT ![t] = @ + 1], lk_writer)
         ELSE LockState(lk_queue, lk_guards, <<t>>)
    ELSE LockState(Append(lk_queue, [task |-> t, kind |-> kind]), lk_guards, lk_writer)

\* after a guard is dropped: the waiters are served from the head of the queue
\* as long as the lock allows it
RECURSIVE Wake(_, _, _)
Wake(q, g, w) ==
    IF q = <<>> \/ w # <<>> THEN LockState(q, g, w)
    ELSE IF Head(q).kind = "read"
         THEN Wake(Tail(q), [g EXCEPT ![Head(q).task] = @ + 1], w)
         ELSE IF NoReaders(g) THEN LockState(Tail(q), g, <<Head(q).task>>)
              ELSE LockState(q, g, w)

DropRead(t) == Wake(lk_queue, [lk_guards EXCEPT ![t] = @ - 1], lk_writer)
DropWrite == Wake(lk_queue, lk_guards, <<>>)

SetLock(st) ==
    /\ lk_queue' = st.queue
    /\ lk_guards' = st.guards
    /\ lk_writer' = st.writer

LkFrame == UNCHANGED <<core_vars, sl_vars, cd_vars, ov_vars>>

\* get_stats_summary: `let stats = self.stats.read().await`
SummaryRead ==
    /\ lk_pc[SummaryTask] = "idle"
    /\ SetLock(Request(SummaryTask, "read"))
    /\ lk_pc' = [lk_pc EXCEPT ![SummaryTask] = "outer"]
    /\ UNCHANGED lk_index
    /\ LkFrame

\* get_stats_summary calls get_available, which asks for a read guard of its
\* own while the guard of get_stats_summary is alive
SummaryGetAvailable ==
    /\ lk_pc[SummaryTask] = "outer"
    /\ ~Queued(SummaryTask)
    /\ SetLock(Request(SummaryTask, "read"))
    /\ lk_pc' = [lk_pc EXCEPT ![SummaryTask] = "inner"]
    /\ UNCHANGED lk_index
    /\ LkFrame

\* get_available returns its list and drops its guard
SummaryAvailable ==
    /\ lk_pc[SummaryTask] = "inner"
    /\ ~Queued(SummaryTask)
    /\ SetLock(DropRead(SummaryTask))
    /\ lk_pc' = [lk_pc EXCEPT ![SummaryTask] = "counting"]
    /\ UNCHANGED lk_index
    /\ LkFrame

\* get_stats_summary builds the map, drops its guard and returns
SummaryReturn ==
    /\ lk_pc[SummaryTask] = "counting"
    /\ SetLock(DropRead(SummaryTask))
    /\ lk_pc' = [lk_pc EXCEPT ![SummaryTask] = "done"]
    /\ UNCHANGED lk_index
    /\ LkFrame

\* get_next calls get_available: stats.read().await
LkGetNext(c) ==
    /\ lk_pc[c] = "idle"
    /\ SetLock(Request(c, "read"))
    /\ lk_pc' = [lk_pc EXCEPT ![c] = "available"]
    /\ UNCHANGED lk_index
    /\ LkFrame

\* get_available returns and drops its guard; get_next returns None on an
\* empty list
LkAvailable(c) ==
    /\ lk_pc[c] = "available"
    /\ ~Queued(c)
    /\ SetLock(DropRead(c))
    /\ \E empty \in BOOLEAN :
          lk_pc' = [lk_pc EXCEPT ![c] = IF empty THEN "idle" ELSE "index"]
    /\ UNCHANGED lk_index
    /\ LkFrame

\* get_next: current_index.write().await, the new index, stats.write().await
LkIndex(c) ==
    /\ lk_pc[c] = "index"
    /\ lk_index = <<>>
    /\ lk_index' = <<c>>
    /\ SetLock(Request(c, "write"))
    /\ lk_pc' = [lk_pc EXCEPT ![c] = "commit"]
    /\ LkFrame

\* get_next updates the record and returns, dropping both guards
LkCommit(c) ==
    /\ lk_pc[c] = "commit"
    /\ ~Queued(c)
    /\ SetLock(DropWrite)
    /\ lk_index' = <<>>
    /\ lk_pc' = [lk_pc EXCEPT ![c] = "idle"]
    /\ LkFrame

\* report_success, report_failure: stats.write().await
LkReport(c) ==
    /\ lk_pc[c] = "idle"
    /\ SetLock(Request(c, "write"))
    /\ lk_pc' = [lk_pc EXCEPT ![c] = "report"]
    /\ UNCHANGED lk_index
    /\ LkFrame

\* report_success, report_failure update the record and return
LkReported(c) ==
    /\ lk_pc[c] = "report"
    /\ ~Queued(c)
    /\ SetLock(DropWrite)
    /\ lk_pc' = [lk_pc EXCEPT ![c] = "idle"]
    /\ UNCHANGED lk_index
    /\ LkFrame

InitLock ==
    /\ CoreIdle
    /\ SlIdle
    /\ CdIdle
    /\ OvIdle
    /\ lk_pc = [t \in LkTasks |-> "idle"]
    /\ lk_guards = [t \in LkTasks |-> 0]
    /\ lk_writer = <<>>
    /\ lk_queue = <<>>
    /\ lk_index = <<>>

NextLock ==
    \/ SummaryRead
    \/ SummaryGetAvailable
    \/ SummaryAvailable
    \/ SummaryReturn
    \/ \E c \in LkCallers : LkGetNext(c)
    \/ \E c \in LkCallers : LkAvailable(c)
    \/ \E c \in LkCallers : LkIndex(c)
    \/ \E c \in LkCallers : LkCommit(c)
    \/ \E c \in LkCallers : LkReport(c)
    \/ \E c \in LkCallers : LkReported(c)

SpecLock == InitLock /\ [][NextLock]_all_vars

(* ------------------------ claims on the stats lock ---------------------- *)
\* C35 (as the specification states it): get_stats_summary always completes
\* next to get_next and report_* calls on the same pool: while it has not
\* returned, the tasks on the pool never all come to rest waiting for the
\* stats lock.
SummaryAlwaysCompletes ==
    lk_pc[SummaryTask] \in {"outer", "inner", "counting"} => ENABLED NextLock


\* C36 (as the specification states it): a stop request is never lost.  Once
\* stop_scraper has answered true, at any moment of the run, the run begins
\* no page.goto any more.
StopRequestNeverLost ==
    [][(stop_requested /\ pc' = "nav_goto") => pc = "nav_goto"]_vars


(* ------------------ the cards of a page over the iterations ------------- *)
\* One category page with its product cards, parsed once per iteration of the
\* while loop; every parse sees all the cards that are on the page.

\* most cards on the page
MaxCards == 2
\* most iterations of the loop on the page
MaxParses == 2
\* number of values Uuid::new_v4() is drawn from
NumUuids == 3

\* a card is its link: the digits of /product/<digits> in the href, if any
CardLinks == {<<>>} \cup {<<n>> : n \in Ids}
CardLists == SeqsUpTo(CardLinks, MaxCards)

\* the strings Uuid::new_v4().to_string() gives; none of them is a digit string
Uuids == (NumIds + 1)..(NumIds + NumUuids)

\* extract_id_from_url(&product_url).unwrap_or_else(|| Uuid::new_v4().to_string())
ElementTiktokId(link, uuid) == IF link = <<>> THEN uuid ELSE link[1]

\* parse_product_element on the i-th card
ParseProductElement(i, uuid) ==
    [tiktok_id |-> ElementTiktokId(cd_cards[i], uuid), card |-> i]

\* the products one parse of the page returns: from structured data, where
\* each product carries its own id, or from the cards in the DOM
ParsedCards(uuids) ==
    [i \in 1..Len(cd_cards) |->
        IF cd_source = "structured"
        THEN [tiktok_id |-> NumIds + NumUuids + i, card |-> i]
        ELSE ParseProductElement(i, uuids[i])]

\* one iteration of the loop: parse_product_list and the dedup merge
CardsParse ==
    /\ cd_parses < MaxParses
    /\ cd_parses' = cd_parses + 1
    /\ \E uuids \in [1..Len(cd_cards) -> Uuids] :
          cd_all' = MergeProducts(cd_all, ParsedCards(uuids))
    /\ UNCHANGED <<cd_cards, cd_source>>
    /\ UNCHANGED <<core_vars, sl_vars, lk_vars, ov_vars>>

InitCards ==
    /\ CoreIdle
    /\ SlIdle
    /\ LkIdle
    /\ OvIdle
    /\ cd_cards \in CardLists
    /\ cd_source \in {"structured", "dom"}
    /\ cd_all = <<>>
    /\ cd_parses = 0

NextCards == CardsParse

SpecCards == InitCards /\ [][NextCards]_all_vars

(* --------------------- claims on the cards of a page -------------------- *)
ProductsOfCard(i) == {k \in 1..Len(cd_all) : cd_all[k].card = i}

\* C37 (as the specification states it): over all the iterations, every card
\* on the page contributes at most one product to all_products, the cards
\* without a numeric /product/<id> link included.
CardContributesOnce ==
    \A i \in 1..Len(cd_cards) : Cardinality(ProductsOfCard(i)) <= 1


\* C38 (as the specification states it): whatever report_failure calls come in
\* between, the endpoint a get_next call returns is not blocked within its
\* cooldown at the moment the call selects it and counts the request.
NextNeverReturnsBlocked ==
    [][NextReturned => IsAvailable(stats[prev'[1].server], now)]_all_vars


\* C39 (as the specification states it): with the safety switch enabled the
\* run goes on from the safety check towards the extraction only when the
\* page content was read and holds no block marker; a failed read of the
\* content never lets it go on.
SafetySwitchFailClosed ==
    [][(config.safety_switch_enabled /\ pc = "safety" /\ pc' = "human") =>
           content' \notin BlockedPages \cup {"error"}]_vars


(* ------------- scrape_tiktok_shop invocations that overlap -------------- *)
\* Every invocation builds its own TikTokScraper on the one ScraperStatus of
\* the application state.  Of a run only the steps that take the status guard
\* are kept: the resets, the stop checks and the closing section.

\* invocations of scrape_tiktok_shop
NumRuns == 2
\* most stop checks of one run that find it running
MaxStopChecks == 2

OvRuns == 1..NumRuns

\* "Update state to running"
OvCmdReset(r) ==
    /\ ov_pc[r] = "idle"
    /\ ov_lock = <<>>
    /\ ov_running' = TRUE
    /\ ov_pc' = [ov_pc EXCEPT ![r] = "prepare"]
    /\ UNCHANGED <<ov_lock, ov_stop, ov_checks, ov_cancelled>>
    /\ UNCHANGED <<core_vars, sl_vars, lk_vars, cd_vars>>

\* app_data_dir()? and check_disk_space: the disk failure clears is_running
OvCmdPrepare(r) ==
    /\ ov_pc[r] = "prepare"
    /\ \E outcome \in {"ok", "app_dir", "disk"} :
          CASE outcome = "ok" ->
                 /\ ov_pc' = [ov_pc EXCEPT ![r] = "start"]
                 /\ UNCHANGED ov_running
            [] outcome = "app_dir" ->
                 /\ ov_pc' = [ov_pc EXCEPT ![r] = "returned"]
                 /\ UNCHANGED ov_running
            [] outcome = "disk" ->
                 /\ ov_lock = <<>>
                 /\ ov_running' = FALSE
                 /\ ov_pc' = [ov_pc EXCEPT ![r] = "returned"]
    /\ UNCHANGED <<ov_lock, ov_stop, ov_checks, ov_cancelled>>
    /\ UNCHANGED <<core_vars, sl_vars, lk_vars, cd_vars>>

\* start(): the opening log lines and `status.is_running = true`
OvStartReset(r) ==
    /\ ov_pc[r] = "start"
    /\ ov_lock = <<>>
    /\ ov_running' = TRUE
    /\ ov_pc' = [ov_pc EXCEPT ![r] = "run"]
    /\ UNCHANGED <<ov_lock, ov_stop, ov_checks, ov_cancelled>>
    /\ UNCHANGED <<core_vars, sl_vars, lk_vars, cd_vars>>

\* scrape_products up to its next stop check: the run has finished or failed
\* before it, or the check finds the flag cleared and the run breaks off, or
\* the check finds the run running and it goes on
OvStopCheck(r) ==
    /\ ov_pc[r] = "run"
    /\ \E ended \in BOOLEAN :
          IF ended
          THEN /\ ov_pc' = [ov_pc EXCEPT ![r] = "final"]
               /\ UNCHANGED <<ov_checks, ov_cancelled>>
          ELSE /\ ov_lock = <<>>
               /\ IF ~ov_running
                  THEN /\ ov_cancelled' = [ov_cancelled EXCEPT ![r] = TRUE]
                       /\ ov_pc' = [ov_pc EXCEPT ![r] = "final"]
                       /\ UNCHANGED ov_checks
                  ELSE /\ ov_checks[r] < MaxStopChecks
                       /\ ov_checks' = [ov_checks EXCEPT ![r] = @ + 1]
                       /\ UNCHANGED <<ov_pc, ov_cancelled>>
    /\ UNCHANGED <<ov_running, ov_lock, ov_stop>>
    /\ UNCHANGED <<core_vars, sl_vars, lk_vars, cd_vars>>

\* the closing section of start(): is_running = false under a guard that is
\* alive to the end of start(), where add_log waits for the same mutex
OvStartFinal(r) ==
    /\ ov_pc[r] = "final"
    /\ ov_lock = <<>>
    /\ ov_lock' = <<r>>
    /\ ov_running' = FALSE
    /\ ov_pc' = [ov_pc EXCEPT ![r] = "closing"]
    /\ UNCHANGED <<ov_stop, ov_checks, ov_cancelled>>
    /\ UNCHANGED <<core_vars, sl_vars, lk_vars, cd_vars>>

\* stop_scraper, when it answers true
OvStopScraper ==
    /\ ov_lock = <<>>
    /\ ov_running
    /\ ov_running' = FALSE
    /\ ov_stop' = TRUE
    /\ UNCHANGED <<ov_pc, ov_lock, ov_checks, ov_cancelled>>
    /\ UNCHANGED <<core_vars, sl_vars, lk_vars, cd_vars>>

InitOverlap ==
    /\ CoreIdle
    /\ SlIdle
    /\ LkIdle
    /\ CdIdle
    /\ ov_pc = [r \in OvRuns |-> "idle"]
    /\ ov_running = FALSE
    /\ ov_lock = <<>>
    /\ ov_stop = FALSE
    /\ ov_checks = [r \in OvRuns |-> 0]
    /\ ov_cancelled = [r \in OvRuns |-> FALSE]

NextOverlap ==
    \/ \E r \in OvRuns : OvCmdReset(r)
    \/ \E r \in OvRuns : OvCmdPrepare(r)
    \/ \E r \in OvRuns : OvStartReset(r)
    \/ \E r \in OvRuns : OvStopCheck(r)
    \/ \E r \in OvRuns : OvStartFinal(r)
    \/ OvStopScraper

SpecOverlap == InitOverlap /\ [][NextOverlap]_all_vars

(* --------------------- claims on overlapping runs ----------------------- *)
\* C40 (as the specification states it): a run breaks off as cancelled only
\* when a stop was requested, also when invocations overlap on the shared
\* status, and is_running is true whenever some run is inside its
\* scrape_products and no stop was requested.
RunsNeverCancelEachOther ==
    /\ \A r \in OvRuns : ov_cancelled[r] => ov_stop
    /\ ((\E r \in OvRuns : ov_pc[r] = "run") /\ ~ov_stop) => ov_running

====
